---------------------------- MODULE Spec2Model ----------------------------
(***************************************************************************)
(* A model of maiascan's build and lint orchestration scripts              *)
(* (scripts/lint.py, scripts/build.py).                                    *)
(*                                                                         *)
(*   SpecResolve  the toolset resolver over a loaded preset graph          *)
(*                (lint.py, find_version_recursive)                        *)
(*   SpecLoad     the preset graph loader followed by the resolver         *)
(*                (lint.py, get_toolset_from_preset)                       *)
(*   SpecStale    the cache staleness check over the files it reads       *)
(*                (build.py, is_cache_stale)                               *)
(*   SpecOverlay  the nested shell's output laid over the ambient          *)
(*                environment (get_msvc_environment of both scripts)       *)
(*   Spec         the two pipelines from start-up through the environment  *)
(*                bootstrap to their stages (lint.py main, build.py main)  *)
(*                                                                         *)
(* Python strings are sequences of one-character strings, so that the      *)
(* regular expressions of the source are computed and not assumed.         *)
(***************************************************************************)
EXTENDS Integers, Sequences, FiniteSets, TLC

VARIABLES
    pc,            \* position of the running function
    files,         \* the preset documents under root_dir, by file name
    file_idx,      \* how many of preset_files the loader has processed
    presets_map,   \* lint.py presets_map: preset name -> preset object
    load_raised,   \* an exception escaped the loader
    preset_name,   \* the name the resolver was started with
    resolved,      \* the outcome of find_version_recursive(preset_name, set())
    script,        \* the pipeline that runs: "lint" (lint.py) or "build" (build.py)
    os_name,       \* os.name
    environ,       \* os.environ, the ambient environment
    args,          \* the parsed command line
    msvc_toolset,  \* lint.py args.msvc_toolset, which main may overwrite
    env,           \* the mapping get_msvc_environment returned
    env_set,       \* get_msvc_environment has returned
    boot_exit,     \* the statement that ended get_msvc_environment
    vcvars_arg,    \* the version argument vcvars64.bat was run with
    build_dir,     \* the target build directory exists
    cc_exists,     \* compile_commands.json exists in the build directory
    events,        \* the child processes spawned and directories removed, in order
    exit_code,     \* the status the process ended with, Running before
    captured,      \* the standard output of the nested shell when it ends with 0
    cmake_present, \* a cmake executable can be found through env's PATH
    tools,         \* the probe report: tool name -> first line or sentinel
    cache,         \* CMakeCache.txt in the build directory: exists, mtime
    configs,       \* the configuration-input files: exists, mtime
    stale,         \* what is_cache_stale returned
    runs,          \* the stage invocations so far: stage, exit code, verdict
    out,           \* the errors and summaries main printed, in order
    transcript,    \* the lines the test or lint runner wrote
    printed,       \* the lines the test filter let through
    issues,        \* the issues the lint parser retained
    last_was_failed, \* run_command's last_was_failed: a failed test's output follows
    parsed,        \* what parse_line returned for the line read last
    table,         \* the rows of the issue summary table, in the order printed
    children,      \* the child processes of the stages, in the order spawned
    searched,       \* lint.py main: what the searches for run_ct and car returned
    cmd_extras,    \* lint.py main cmd_extras: the arguments added to the linter's
    responses      \* what the user typed at the prompts of confirm_action

loadvars == <<files, file_idx, presets_map, load_raised, preset_name, resolved>>

mainvars == <<script, os_name, environ, args, msvc_toolset, env, env_set, boot_exit,
              vcvars_arg, build_dir, cc_exists, events, exit_code>>

stagevars == <<cmake_present, tools, cache, configs, stale, runs, out, transcript,
               printed, issues, last_was_failed, parsed, table, children, searched,
               cmd_extras, responses>>

vars == <<pc, loadvars, mainvars, captured, stagevars>>

----------------------------------------------------------------------------
(* Python values *)

\* Optional[str]: None, or a string
None == [isNone |-> TRUE, s |-> <<>>]
Some(s) == [isNone |-> FALSE, s |-> s]

\* bool(x) of an Optional[str]: None and "" are false
Truthy(x) == ~x.isNone /\ x.s # <<>>

Digits == {"0", "1", "2", "3", "4", "5", "6", "7", "8", "9"}

\* the character class [0-9.]
VersionChars == Digits \cup {"."}

\* the characters str.strip() and the class \s remove
Whitespace == {" ", "\t", "\n", "\r"}

UpperToLower == [c \in {"V", "E", "R", "S", "I", "O", "N"} |->
                   CASE c = "V" -> "v" [] c = "E" -> "e" [] c = "R" -> "r"
                     [] c = "S" -> "s" [] c = "I" -> "i" [] c = "O" -> "o"
                     [] OTHER -> "n"]

\* re.IGNORECASE on the letters of the pattern
Lower(c) == IF c \in DOMAIN UpperToLower THEN UpperToLower[c] ELSE c

\* str.strip()
Strip(s) ==
    LET keep == {i \in 1..Len(s) : s[i] \notin Whitespace}
    IN  IF keep = {} THEN <<>>
        ELSE LET lo == CHOOSE i \in keep : \A j \in keep : i <= j
                 hi == CHOOSE i \in keep : \A j \in keep : j <= i
             IN  SubSeq(s, lo, hi)

\* the first index >= i of s that is not in class, Len(s) + 1 when there is none
SkipClass(s, i, class) ==
    LET stop == {j \in i..Len(s) : s[j] \notin class}
    IN  IF stop = {} THEN Len(s) + 1
        ELSE CHOOSE j \in stop : \A k \in stop : j <= k

VersionWord == <<"v", "e", "r", "s", "i", "o", "n">>

\* the whole match, group 0, where group 1 is meant
MatchVersionAt_Group0(s, i) ==
    IF i + Len(VersionWord) - 1 > Len(s)
       \/ \E k \in 1..Len(VersionWord) : Lower(s[i + k - 1]) # VersionWord[k]
    THEN None
    ELSE LET eq == SkipClass(s, i + Len(VersionWord), Whitespace)
         IN  IF eq > Len(s) \/ s[eq] # "=" THEN None
             ELSE LET first == SkipClass(s, eq + 1, Whitespace)
                      last  == SkipClass(s, first, VersionChars) - 1
                  IN  IF last < first THEN None
                      ELSE Some(SubSeq(s, i, last))

\* The match of version\s*=\s*([0-9.]+) that starts at index i: its group 1,
\* or None.
MatchVersionAt(s, i) ==
    IF i + Len(VersionWord) - 1 > Len(s)
       \/ \E k \in 1..Len(VersionWord) : Lower(s[i + k - 1]) # VersionWord[k]
    THEN None
    ELSE LET eq == SkipClass(s, i + Len(VersionWord), Whitespace)
         IN  IF eq > Len(s) \/ s[eq] # "=" THEN None
             ELSE LET first == SkipClass(s, eq + 1, Whitespace)
                      last  == SkipClass(s, first, VersionChars) - 1
                  IN  IF last < first THEN None
                      ELSE Some(SubSeq(s, first, last))

\* re.search(r"version\s*=\s*([0-9.]+)", ts_value, re.IGNORECASE): group 1 of
\* the leftmost match, or None
SearchVersion(ts_value) ==
    LET hits == {i \in 1..Len(ts_value) : ~MatchVersionAt(ts_value, i).isNone}
    IN  IF hits = {} THEN None
        ELSE MatchVersionAt(ts_value, CHOOSE i \in hits : \A j \in hits : i <= j)

\* re.match(r"^[0-9.]+$", ts_value.strip())
LooksLikeVersion(ts_value) ==
    LET t == Strip(ts_value)
    IN  t # <<>> /\ \A i \in 1..Len(t) : t[i] \in VersionChars

----------------------------------------------------------------------------
(* Preset objects.  "toolset" is absent, a string, or an object with keys;  *)
(* "inherits" is absent, a string, or a list of names.                      *)

NoToolset == [kind |-> "absent", keys |-> {}, value |-> <<>>]
StrToolset(s) == [kind |-> "str", keys |-> {}, value |-> s]
DictToolset(keys, s) == [kind |-> "dict", keys |-> keys, value |-> s]

NoInherits == [kind |-> "absent", name |-> "", names |-> <<>>]
StrInherits(n) == [kind |-> "str", name |-> n, names |-> <<>>]
ListInherits(ns) == [kind |-> "list", name |-> "", names |-> ns]

\* bool(toolset): None, "" and {} are false
ToolsetTruthy(toolset) ==
    CASE toolset.kind = "absent" -> FALSE
      [] toolset.kind = "str" -> toolset.value # <<>>
      [] OTHER -> toolset.keys # {}

\* toolset if isinstance(toolset, str) else toolset.get("value", "")
TsValue(toolset) ==
    IF toolset.kind = "str" THEN toolset.value
    ELSE IF "value" \in toolset.keys THEN toolset.value ELSE <<>>

\* Part A of find_version_recursive: the version this preset's own toolset
\* yields, or None
OwnToolsetVersion(preset) ==
    IF ~ToolsetTruthy(preset.toolset) THEN None
    ELSE LET ts_value == TsValue(preset.toolset)
             match == SearchVersion(ts_value)
         IN  IF ~match.isNone THEN match
             ELSE IF LooksLikeVersion(ts_value) THEN Some(Strip(ts_value))
             ELSE None

\* preset.get("inherits", []), a single string made a one-element list
NormalizeInherits(preset) ==
    CASE preset.inherits.kind = "absent" -> <<>>
      [] preset.inherits.kind = "str" -> <<preset.inherits.name>>
      [] OTHER -> preset.inherits.names

----------------------------------------------------------------------------
(* The recursive resolver.  Its state is the visited set the calls share;   *)
(* order, calls, raised and diverged record what the calls did.             *)

NewSearch == [visited |-> {}, order |-> <<>>, calls |-> 0,
              raised |-> FALSE, diverged |-> FALSE]

\* the preset names of the graph
Names == {"A", "B", "C"}

\* a name no document defines
Missing == "Z"

\* Each nested call below the first has a visited preset above it, except
\* the last, which may return at once.
DepthLimit == Cardinality(Names) + 1

\* cycle protection dropped
NotInMapOrVisited_NoVisited(pm, current_name, visited) ==
    current_name \notin DOMAIN pm

\* the membership test dropped
NotInMapOrVisited_NoMapCheck(pm, current_name, visited) ==
    current_name \in visited

\* current_name not in presets_map or current_name in visited
NotInMapOrVisited(pm, current_name, visited) ==
    current_name \notin DOMAIN pm \/ current_name \in visited

RECURSIVE find_version_recursive(_, _, _, _)
RECURSIVE SearchParents(_, _, _, _, _)

\* the parents searched last to first
SearchParents_Reversed(pm, inherits, i, st, depth) ==
    IF i > Len(inherits) THEN [found |-> None, st |-> st]
    ELSE LET r == find_version_recursive(pm, inherits[Len(inherits) + 1 - i],
                                         st, depth + 1)
         IN  IF r.st.raised \/ r.st.diverged THEN r
             ELSE IF Truthy(r.found) THEN r
             ELSE SearchParents(pm, inherits, i + 1, r.st, depth)

\* Part B: for parent_name in inherits, from the i-th on
SearchParents(pm, inherits, i, st, depth) ==
    IF i > Len(inherits) THEN [found |-> None, st |-> st]
    ELSE LET r == find_version_recursive(pm, inherits[i], st, depth + 1)
         IN  IF r.st.raised \/ r.st.diverged THEN r
             ELSE IF Truthy(r.found) THEN r
             ELSE SearchParents(pm, inherits, i + 1, r.st, depth)

\* the presets a preset inherits from searched before its own toolset
find_version_recursive_ParentsFirst(pm, current_name, st, depth) ==
    LET entered == [st EXCEPT !.calls = @ + 1]
    IN  IF depth > DepthLimit
        THEN [found |-> None, st |-> [entered EXCEPT !.diverged = TRUE]]
        ELSE IF NotInMapOrVisited(pm, current_name, st.visited)
        THEN [found |-> None, st |-> entered]
        ELSE IF current_name \notin DOMAIN pm
        THEN [found |-> None, st |-> [entered EXCEPT !.raised = TRUE]]
        ELSE LET marked == [entered EXCEPT !.visited = @ \cup {current_name},
                                           !.order = Append(@, current_name)]
                 preset == pm[current_name]
                 r == SearchParents(pm, NormalizeInherits(preset), 1, marked, depth)
             IN  IF r.st.raised \/ r.st.diverged \/ Truthy(r.found) THEN r
                 ELSE [found |-> OwnToolsetVersion(preset), st |-> r.st]

\* find_version_recursive(current_name, visited).  presets_map[current_name]
\* raises KeyError for a missing key; depth > DepthLimit stands for a
\* recursion that does not end.
find_version_recursive(pm, current_name, st, depth) ==
    LET entered == [st EXCEPT !.calls = @ + 1]
    IN  IF depth > DepthLimit
        THEN [found |-> None, st |-> [entered EXCEPT !.diverged = TRUE]]
        ELSE IF NotInMapOrVisited(pm, current_name, st.visited)
        THEN [found |-> None, st |-> entered]
        ELSE IF current_name \notin DOMAIN pm
        THEN [found |-> None, st |-> [entered EXCEPT !.raised = TRUE]]
        ELSE LET marked == [entered EXCEPT !.visited = @ \cup {current_name},
                                           !.order = Append(@, current_name)]
                 preset == pm[current_name]
                 own == OwnToolsetVersion(preset)
             IN  IF ~own.isNone THEN [found |-> own, st |-> marked]
                 ELSE SearchParents(pm, NormalizeInherits(preset), 1, marked, depth)

\* return find_version_recursive(preset_name, set())
StartSearch(pm, name) == find_version_recursive(pm, name, NewSearch, 1)

----------------------------------------------------------------------------
(* The graphs the resolver is run on.  Every preset has its own form of     *)
(* toolset, and its own version, so that a result tells which preset it     *)
(* was taken from.                                                          *)

\* the most "inherits" entries a graph holds, over all its presets
MaxEdges == 3

\* "version=14.4"
TS_A == <<"v", "e", "r", "s", "i", "o", "n", "=", "1", "4", ".", "4">>
\* "17.1"
TS_B == <<"1", "7", ".", "1">>
\* " VERSION = 1.2,host=x64"
TS_C == <<" ", "V", "E", "R", "S", "I", "O", "N", " ", "=", " ", "1", ".", "2",
          ",", "h", "o", "s", "t", "=", "x", "6", "4">>
\* "host=x64"
TS_Host == <<"h", "o", "s", "t", "=", "x", "6", "4">>

\* the toolset of preset n that names a version
UsableToolset(n) ==
    CASE n = "A" -> StrToolset(TS_A)
      [] n = "B" -> StrToolset(TS_B)
      [] OTHER -> DictToolset({"value", "strategy"}, TS_C)

\* a toolset of preset n that names none: a host, an empty string, an
\* object without "value"
UnusableToolset(n) ==
    CASE n = "A" -> StrToolset(TS_Host)
      [] n = "B" -> StrToolset(<<>>)
      [] OTHER -> DictToolset({"strategy"}, <<>>)

\* the version UsableToolset(n) names
Version(n) ==
    CASE n = "A" -> <<"1", "4", ".", "4">>
      [] n = "B" -> <<"1", "7", ".", "1">>
      [] OTHER -> <<"1", ".", "2">>

ToolsetsOf(n) == {NoToolset, UnusableToolset(n), UsableToolset(n)}

ParentNames == Names \cup {Missing}

\* the "inherits" values with k entries: a list, or for one entry a string
InheritsOfLen(k) ==
    IF k = 0 THEN {NoInherits}
    ELSE {ListInherits(ns) : ns \in [1..k -> ParentNames]}
         \cup (IF k = 1 THEN {StrInherits(n) : n \in ParentNames} ELSE {})

Preset(n, toolset, inherits) == [name |-> n, toolset |-> toolset, inherits |-> inherits]

NotResolved == [found |-> None, st |-> NewSearch]

NoFiles == <<>>

\* exit_code while the process runs
Running == -1

\* a mapping without variables
EmptyEnv == [k \in {} |-> <<>>]

NoArgs == [explicit_toolset |-> None, preset |-> "", fix |-> FALSE, force |-> FALSE,
           skip_tests |-> FALSE, reconfigure |-> FALSE, clean |-> FALSE,
           verbose |-> FALSE]

\* the names of the configuration-input files, build.py configs
ConfigNames == {"CMakeLists.txt", "CMakePresets.json", "CMakeUserPresets.json",
                "vcpkg.json"}

\* a file that does not exist, and one with a modification time
NoFile == [exists |-> FALSE, mtime |-> 0]
FileAt(t) == [exists |-> TRUE, mtime |-> t]

\* is_cache_stale has not been called
NoVerdict == [known |-> FALSE, value |-> FALSE]
Returned(b) == [known |-> TRUE, value |-> b]

\* the probe report before the probe
NoTools == [t \in {} |-> ""]

\* no tool has been searched for
NotLooked == [t \in {} |-> FALSE]

\* no line of a runner has been read, no tool searched for, no prompt shown
StreamIdle ==
    /\ last_was_failed = FALSE /\ parsed = <<>> /\ table = <<>> /\ children = <<>>
    /\ searched = NotLooked /\ cmd_extras = <<>> /\ responses = <<>>

\* nothing of the stages has happened
StageIdle ==
    /\ StreamIdle
    /\ captured = <<>> /\ cmake_present = TRUE /\ tools = NoTools
    /\ cache = NoFile /\ configs = [c \in ConfigNames |-> NoFile]
    /\ stale = NoVerdict /\ runs = <<>> /\ out = <<>>
    /\ transcript = <<>> /\ printed = <<>> /\ issues = <<>>

\* no pipeline runs
MainIdle ==
    /\ StageIdle
    /\ script = "none" /\ os_name = "posix" /\ environ = EmptyEnv /\ args = NoArgs
    /\ msvc_toolset = None /\ env = EmptyEnv /\ env_set = FALSE
    /\ boot_exit = "pending" /\ vcvars_arg = None
    /\ build_dir = FALSE /\ cc_exists = FALSE
    /\ events = <<>> /\ exit_code = Running

\* The state after the loader: any graph over Names is the content of one
\* base document.
InitResolve ==
    /\ pc = "loaded"
    /\ files = NoFiles
    /\ file_idx = 2
    /\ load_raised = FALSE
    /\ preset_name = ""
    /\ resolved = NotResolved
    /\ MainIdle
    /\ \E la, lb, lc \in 0..MaxEdges :
         /\ la + lb + lc <= MaxEdges
         /\ \E ia \in InheritsOfLen(la), ib \in InheritsOfLen(lb),
               ic \in InheritsOfLen(lc) :
              \E ta \in ToolsetsOf("A"), tb \in ToolsetsOf("B"), tc \in ToolsetsOf("C") :
                 presets_map = [n \in Names |->
                     CASE n = "A" -> Preset(n, ta, ia)
                       [] n = "B" -> Preset(n, tb, ib)
                       [] OTHER -> Preset(n, tc, ic)]

\* get_toolset_from_preset, step 2: the search is started and returns
Resolve ==
    /\ pc = "loaded"
    /\ ~load_raised
    /\ \E name \in Names \cup {Missing} :
         /\ preset_name' = name
         /\ resolved' = StartSearch(presets_map, name)
    /\ pc' = "resolved"
    /\ UNCHANGED <<files, file_idx, presets_map, load_raised>>
    /\ UNCHANGED <<mainvars, captured, stagevars>>

NextResolve == Resolve

SpecResolve == InitResolve /\ [][NextResolve]_vars

----------------------------------------------------------------------------
(* What the resolver is checked against.  Usable and ParentsOf read the     *)
(* graph as written, not through the resolver's own operators.              *)

Usable(n) == presets_map[n].toolset = UsableToolset(n)

ParentsOf(n) ==
    LET inh == presets_map[n].inherits
    IN  IF inh.kind = "str" THEN <<inh.name>> ELSE inh.names

Range(seq) == {seq[i] : i \in 1..Len(seq)}

RECURSIVE ReachWithin(_, _)
\* the presets of the graph reached from the set S in at most k steps
ReachWithin(S, k) ==
    IF k = 0 THEN S
    ELSE ReachWithin(S \cup UNION {Range(ParentsOf(n)) \cap Names : n \in S}, k - 1)

\* the subtree of p: the presets of the graph p reaches, p included
Subtree(p) == IF p \in Names THEN ReachWithin({p}, Cardinality(Names)) ELSE {}

\* p's subtree holds a toolset that names a version
Yields(p) == \E m \in Subtree(p) : Usable(m)

RECURSIVE EdgesOf(_)
\* the number of "inherits" entries of the presets in order
EdgesOf(order) ==
    IF order = <<>> THEN 0
    ELSE Len(ParentsOf(Head(order))) + EdgesOf(Tail(order))

Resolved == pc = "resolved"

\* C1 as stated: a preset that defines a toolset field is resolved from that
\* field alone, and no parent of it is searched.
C1_AsStated ==
    (Resolved /\ preset_name \in Names
       /\ presets_map[preset_name].toolset.kind # "absent")
    => /\ resolved.st.order = <<preset_name>>
       /\ resolved.found \in {None, Some(Version(preset_name))}

\* C1: a preset whose own toolset yields a version is resolved to
\* that version and none of its parents is searched; this holds of every
\* preset the search enters, so the search goes on to parents only from
\* presets whose toolset is absent or yields no version.
C1_OwnValuePrecedence ==
    Resolved =>
      \A i \in 1..Len(resolved.st.order) :
         LET n == resolved.st.order[i]
         IN  /\ Usable(n) => /\ i = Len(resolved.st.order)
                             /\ resolved.found = Some(Version(n))
             /\ i < Len(resolved.st.order) =>
                  presets_map[n].toolset \in {NoToolset, UnusableToolset(n)}

C1_Witness ==
    /\ Resolved /\ preset_name = "A" /\ Usable("A")
    /\ ParentsOf("A") = <<"B", "C">> /\ Usable("B") /\ Usable("C")
    /\ resolved.found = Some(Version("A"))
    /\ resolved.st.order = <<"A">>

\* "version="
VersionEq == <<"v", "e", "r", "s", "i", "o", "n", "=">>

\* the toolset is the string 'version=<v>' or the bare string <v>
IsVersionForm(toolset, v) ==
    /\ toolset.kind = "str"
    /\ toolset.value \in {VersionEq \o v, v}
    /\ v # <<>> /\ \A i \in 1..Len(v) : v[i] \in VersionChars

\* C2: a preset without a toolset whose inherits is the string A, or a list
\* that starts with A, where A's toolset is 'version=<v>' or the bare <v>,
\* resolves to <v>, as A does; every version returned is made of digits and
\* dots only.
C2_InheritedToolset ==
    Resolved =>
      /\ \A b \in Names, a \in Names :
           (/\ preset_name = b /\ a # b
            /\ presets_map[b].toolset = NoToolset
            /\ ParentsOf(b) # <<>> /\ Head(ParentsOf(b)) = a
            /\ IsVersionForm(presets_map[a].toolset, Version(a)))
           => /\ resolved.found = Some(Version(a))
              /\ StartSearch(presets_map, a).found = Some(Version(a))
      /\ ~resolved.found.isNone =>
           /\ resolved.found.s # <<>>
           /\ \A i \in 1..Len(resolved.found.s) : resolved.found.s[i] \in VersionChars

C2_Witness ==
    /\ Resolved /\ preset_name = "B"
    /\ presets_map["B"].toolset = NoToolset
    /\ presets_map["B"].inherits = StrInherits("A")
    /\ presets_map["A"].toolset = StrToolset(VersionEq \o Version("A"))
    /\ resolved.found = Some(Version("A"))

\* C3: for a preset whose own toolset yields no version, the result is a
\* version of the subtree of its first parent whose subtree yields one (and
\* nothing when no parent's subtree does); when that parent does not reach
\* back to the preset, the result is what resolving that parent returns.
C3_FirstParentWins ==
    (Resolved /\ preset_name \in Names /\ ~Usable(preset_name)) =>
      LET ps == ParentsOf(preset_name)
          yielding == {i \in 1..Len(ps) : Yields(ps[i])}
      IN  IF yielding = {} THEN resolved.found = None
          ELSE LET first == CHOOSE i \in yielding : \A j \in yielding : i <= j
               IN  /\ \E m \in Subtree(ps[first]) :
                        Usable(m) /\ resolved.found = Some(Version(m))
                   /\ preset_name \notin Subtree(ps[first]) =>
                        resolved.found = StartSearch(presets_map, ps[first]).found

C3_Witness ==
    /\ Resolved /\ preset_name = "A" /\ presets_map["A"].toolset = UnusableToolset("A")
    /\ ParentsOf("A") = <<"Z", "C", "B">> /\ Usable("B") /\ Usable("C")
    /\ resolved.found = Some(Version("C"))

\* C4: every search ends, enters no preset twice, makes no more calls than
\* one plus the inherits entries of the presets it entered, and returns
\* nothing when no preset it entered has a toolset that names a version.
C4_Terminates ==
    Resolved =>
      /\ ~resolved.st.diverged
      /\ Len(resolved.st.order) = Cardinality(resolved.st.visited)
      /\ Range(resolved.st.order) = resolved.st.visited
      /\ resolved.st.calls <= 1 + EdgesOf(resolved.st.order)
      /\ (\A n \in resolved.st.visited : ~Usable(n)) => resolved.found = None

C4_Witness ==
    /\ Resolved /\ preset_name = "A"
    /\ ParentsOf("A") = <<"B">> /\ ParentsOf("B") = <<"A", "B">>
    /\ ~Usable("A") /\ ~Usable("B")
    /\ resolved.found = None /\ resolved.st.order = <<"A", "B">>
    /\ resolved.st.calls = 4

\* the graph with every parent name that no document defines left out
Pruned(pm) ==
    [n \in DOMAIN pm |->
       LET inh == pm[n].inherits
       IN  [pm[n] EXCEPT !.inherits =
              CASE inh.kind = "absent" -> inh
                [] inh.kind = "str" ->
                     IF inh.name \in DOMAIN pm THEN inh ELSE NoInherits
                [] OTHER -> ListInherits(SelectSeq(inh.names,
                                                   LAMBDA x : x \in DOMAIN pm))]]

\* C5: no search raises; a name that is not in the graph resolves to nothing
\* and enters no preset; and a graph resolves as it does with its undefined
\* parent names left out, so an undefined parent is passed over.
C5_UnknownNames ==
    Resolved =>
      /\ ~resolved.st.raised
      /\ preset_name \notin DOMAIN presets_map =>
           resolved.found = None /\ resolved.st.order = <<>>
      /\ LET pruned == StartSearch(Pruned(presets_map), preset_name)
         IN  /\ resolved.found = pruned.found
             /\ resolved.st.order = pruned.st.order

C5_Witness ==
    /\ Resolved /\ preset_name = "A" /\ presets_map["A"].toolset = NoToolset
    /\ ParentsOf("A") = <<"Z", "B">> /\ Usable("B")
    /\ resolved.found = Some(Version("B"))

----------------------------------------------------------------------------
(* The preset graph loader: step 1 of get_toolset_from_preset.              *)

\* preset_files, in the order they are read
preset_files == <<"CMakePresets.json", "CMakeUserPresets.json">>

\* A document: whether the file exists, what json.load makes of it, and the
\* entries of its "configurePresets" list (none when the key is absent).
MissingDoc == [exists |-> FALSE, json |-> "none", entries |-> <<>>]
InvalidDoc == [exists |-> TRUE, json |-> "invalid", entries |-> <<>>]
ArrayDoc == [exists |-> TRUE, json |-> "array", entries |-> <<>>]
ObjectDoc(entries) == [exists |-> TRUE, json |-> "object", entries |-> entries]

\* An entry of "configurePresets": a preset object, with or without "name"
Named(preset) == [hasName |-> TRUE, preset |-> preset]
Nameless == [hasName |-> FALSE, preset |-> Preset("", NoToolset, NoInherits)]

\* the classes derived from Exception among those the model raises;
\* SystemExit derives from BaseException only
ExceptionClasses == {"JSONDecodeError", "AttributeError", "KeyError", "OSError",
                     "CalledProcessError"}

\* the handler catches a narrower class than Exception
LoaderCatches_OnlyJSONDecodeError(exc) == exc = "JSONDecodeError"

\* the loader's "except Exception: continue"
LoaderCatches(exc) == exc \in ExceptionClasses

\* a name already in the map keeps its record
InsertPreset_KeepFirst(pm, p) ==
    [n \in DOMAIN pm \cup {p.name} |-> IF n \in DOMAIN pm THEN pm[n] ELSE p]

\* presets_map[p["name"]] = p
InsertPreset(pm, p) ==
    [n \in DOMAIN pm \cup {p.name} |-> IF n = p.name THEN p ELSE pm[n]]

RECURSIVE InsertEntries(_, _, _)
\* for p in data.get("configurePresets", []), from the i-th entry on: the map
\* as the loop leaves it, and the exception that ended the loop
InsertEntries(pm, entries, i) ==
    IF i > Len(entries) THEN [pm |-> pm, exc |-> "none"]
    ELSE IF ~entries[i].hasName THEN [pm |-> pm, exc |-> "KeyError"]
    ELSE InsertEntries(InsertPreset(pm, entries[i].preset), entries, i + 1)

\* the body of the try statement for one existing file
ProcessFile(pm, doc) ==
    CASE doc.json = "invalid" -> [pm |-> pm, exc |-> "JSONDecodeError"]
      [] doc.json = "array" -> [pm |-> pm, exc |-> "AttributeError"]
      [] OTHER -> InsertEntries(pm, doc.entries, 1)

\* the most entries a document's "configurePresets" holds
MaxEntries == 2

\* The entries of the documents: A inherits from B, with or without a
\* toolset of its own; B with one of two toolsets; an entry without a name.
LoadEntries ==
    {Nameless}
    \cup {Named(Preset("A", t, StrInherits("B"))) : t \in {NoToolset, UsableToolset("A")}}
    \cup {Named(Preset("B", t, NoInherits)) : t \in {UsableToolset("B"), UsableToolset("C")}}

Docs ==
    {MissingDoc, InvalidDoc, ArrayDoc}
    \cup {ObjectDoc(es) : es \in UNION {[1..k -> LoadEntries] : k \in 0..MaxEntries}}

EmptyMap == [n \in {} |-> Preset(n, NoToolset, NoInherits)]

InitLoad ==
    /\ pc = "loading"
    /\ files \in [Range(preset_files) -> Docs]
    /\ file_idx = 0
    /\ presets_map = EmptyMap
    /\ load_raised = FALSE
    /\ preset_name = ""
    /\ resolved = NotResolved
    /\ MainIdle

\* One turn of "for filename in preset_files": a missing file is passed over;
\* an exception of the body is caught, what the body had inserted stays; an
\* exception that is not caught leaves get_toolset_from_preset.
LoadFile ==
    /\ pc = "loading"
    /\ file_idx < Len(preset_files)
    /\ LET doc == files[preset_files[file_idx + 1]]
           r == IF doc.exists THEN ProcessFile(presets_map, doc)
                ELSE [pm |-> presets_map, exc |-> "none"]
       IN  IF r.exc = "none" \/ LoaderCatches(r.exc)
           THEN /\ presets_map' = r.pm
                /\ file_idx' = file_idx + 1
                /\ pc' = IF file_idx + 1 = Len(preset_files) THEN "loaded" ELSE "loading"
                /\ UNCHANGED load_raised
           ELSE /\ presets_map' = r.pm
                /\ load_raised' = TRUE
                /\ pc' = "raised"
                /\ UNCHANGED file_idx
    /\ UNCHANGED <<files, preset_name, resolved>>
    /\ UNCHANGED <<mainvars, captured, stagevars>>

NextLoad == LoadFile \/ Resolve

SpecLoad == InitLoad /\ [][NextLoad]_vars

----------------------------------------------------------------------------
(* What the loader is checked against *)

\* the first index of a nameless entry, Len(entries) + 1 when there is none
FirstNameless(entries) ==
    LET bad == {i \in 1..Len(entries) : ~entries[i].hasName}
    IN  IF bad = {} THEN Len(entries) + 1
        ELSE CHOOSE i \in bad : \A j \in bad : i <= j

\* processing the document fails: it does not parse, is no object, or holds
\* an entry without a name
Fails(doc) ==
    doc.exists /\ (doc.json # "object" \/ FirstNameless(doc.entries) <= Len(doc.entries))

\* the entries the loader reads from a document: those before its first
\* nameless entry, none when the file is missing or is no JSON object
ReadEntries(doc) ==
    IF ~doc.exists \/ doc.json # "object" THEN <<>>
    ELSE SubSeq(doc.entries, 1, FirstNameless(doc.entries) - 1)

\* the entries of a document that is present and processed without failure
WholeEntries(doc) == IF ~doc.exists \/ Fails(doc) THEN <<>> ELSE doc.entries

NamesIn(entries) == {entries[i].preset.name : i \in 1..Len(entries)}

\* the record of the last entry of the sequence with the name n
LastNamed(entries, n) ==
    LET at == {i \in 1..Len(entries) : entries[i].preset.name = n}
    IN  entries[CHOOSE i \in at : \A j \in at : j <= i].preset

BaseDoc == files[preset_files[1]]
UserDoc == files[preset_files[2]]

LoadEnded == pc \in {"loaded", "resolved", "raised"}

\* C6 as stated: a document that is missing or whose processing fails leaves
\* no entry in the graph; the graph is that of the other documents.
C6_AsStated ==
    LoadEnded =>
      /\ ~load_raised
      /\ DOMAIN presets_map = NamesIn(WholeEntries(BaseDoc)) \cup NamesIn(WholeEntries(UserDoc))

\* C6: the load never raises; a missing document, one that does not
\* parse and one that is no object leave no entry; a document with a
\* nameless entry leaves the entries before it and none after it; the other
\* document's entries are loaded all the same.
C6_LoadFailures ==
    LoadEnded =>
      /\ ~load_raised /\ pc # "raised"
      /\ DOMAIN presets_map = NamesIn(ReadEntries(BaseDoc)) \cup NamesIn(ReadEntries(UserDoc))
      /\ \A n \in DOMAIN presets_map :
           \E es \in {ReadEntries(BaseDoc), ReadEntries(UserDoc)} :
              \E i \in 1..Len(es) : es[i].preset = presets_map[n]
      /\ \A d \in {BaseDoc, UserDoc} :
           (~d.exists \/ d.json # "object") => ReadEntries(d) = <<>>

C6_Witness ==
    /\ pc = "loaded" /\ ~load_raised
    /\ BaseDoc.exists /\ Len(BaseDoc.entries) = 2
    /\ BaseDoc.entries[1].hasName /\ BaseDoc.entries[1].preset.name = "A"
    /\ ~BaseDoc.entries[2].hasName
    /\ UserDoc = InvalidDoc
    /\ DOMAIN presets_map = {"A"}

\* C7: the graph holds, for every name, the record of the last entry of that
\* name among the entries read, base document first, user document second:
\* the user document's record when both have one, the later entry when one
\* document repeats the name.
C7_LastWriteWins ==
    LoadEnded =>
      LET read == ReadEntries(BaseDoc) \o ReadEntries(UserDoc)
      IN  /\ \A n \in NamesIn(read) :
               n \in DOMAIN presets_map /\ presets_map[n] = LastNamed(read, n)
          /\ \A n \in NamesIn(ReadEntries(UserDoc)) :
               presets_map[n] = LastNamed(ReadEntries(UserDoc), n)

C7_Witness ==
    /\ pc = "loaded"
    /\ ~Fails(BaseDoc) /\ ~Fails(UserDoc)
    /\ Len(BaseDoc.entries) = 2 /\ Len(UserDoc.entries) = 2
    /\ \A i \in 1..2 : BaseDoc.entries[i].preset.name = "B"
                       /\ UserDoc.entries[i].preset.name = "B"
    /\ BaseDoc.entries[2].preset # UserDoc.entries[2].preset
    /\ UserDoc.entries[1].preset # UserDoc.entries[2].preset
    /\ presets_map["B"] = UserDoc.entries[2].preset

----------------------------------------------------------------------------
(* get_toolset_from_preset as lint.py's main calls it *)

RECURSIVE LoadFiles(_, _, _)
\* step 1 of get_toolset_from_preset: the files from the i-th on
LoadFiles(fs, pm, i) ==
    IF i > Len(preset_files) THEN pm
    ELSE LET doc == fs[preset_files[i]]
         IN  LoadFiles(fs, IF doc.exists THEN ProcessFile(pm, doc).pm ELSE pm, i + 1)

get_toolset_from_preset(name, fs) == StartSearch(LoadFiles(fs, EmptyMap, 1), name).found

\* the preset the pipelines are run for
DefaultPreset == "A"

\* the documents main finds under the project root: none; A with its own
\* toolset; A inheriting B's, overridden by the user document
DetectFiles ==
    {[f \in Range(preset_files) |-> MissingDoc],
     [f \in Range(preset_files) |->
        IF f = preset_files[1]
        THEN ObjectDoc(<<Named(Preset("A", UsableToolset("A"), NoInherits))>>)
        ELSE MissingDoc],
     [f \in Range(preset_files) |->
        IF f = preset_files[1]
        THEN ObjectDoc(<<Named(Preset("A", NoToolset, StrInherits("B"))),
                         Named(Preset("B", UnusableToolset("B"), NoInherits))>>)
        ELSE ObjectDoc(<<Named(Preset("B", UsableToolset("B"), NoInherits))>>)]}

----------------------------------------------------------------------------
(* Environments and the output captured from the nested shell *)

K_VCINSTALLDIR == <<"V", "C", "I", "N", "S", "T", "A", "L", "L", "D", "I", "R">>
K_PATH == <<"P", "A", "T", "H">>
K_K == <<"K">>

\* the ambient environments: without a compiler environment, with one, and
\* with one and a variable the captured block sets as well
AmbientEnvs ==
    {[k \in {K_PATH} |-> <<"/", "b">>],
     [k \in {K_PATH, K_VCINSTALLDIR} |-> IF k = K_PATH THEN <<"/", "b">> ELSE <<"C", ":">>],
     [k \in {K_PATH, K_VCINSTALLDIR, K_K} |->
        IF k = K_PATH THEN <<"/", "b">> ELSE IF k = K_K THEN <<"o">> ELSE <<"C", ":">>]}

\* the separator token, one symbol of the output
SepToken == "[SEP]"

\* the line "echo <separator>" prints
SepLine == <<SepToken>>

\* the lines of the captured output: the separator, "K=v", "K=a=b", "x",
\* " Q=y "
OutputLines ==
    {SepLine, <<"K", "=", "v">>, <<"K", "=", "a", "=", "b">>, <<"x">>,
     <<" ", "Q", "=", "y", " ">>}

\* the most lines of a captured output
MaxLines == 3

Outputs == UNION {[1..k -> OutputLines] : k \in 0..MaxLines}

\* the ambient environments and the outputs of the pipeline runs: a
\* compiler environment active or not; the separator missing, or followed by
\* one variable
PipelineEnvs == {e \in AmbientEnvs : K_K \notin DOMAIN e}

PipelineOutputs == {<<<<"x">>>>, <<<<"x">>, SepLine, <<"K", "=", "v">>>>}

\* separator in output
HasSeparator(output) == \E i \in 1..Len(output) : SepToken \in Range(output[i])

\* output.split(separator, 1)[1].splitlines(), without the rest of the
\* separator's own line, which holds no "="
EnvBlock(output) ==
    LET at == {i \in 1..Len(output) : SepToken \in Range(output[i])}
        first == CHOOSE i \in at : \A j \in at : i <= j
    IN  SubSeq(output, first + 1, Len(output))

\* new_env[key] = value
SetVar(new_env, key, value) ==
    [k \in DOMAIN new_env \cup {key} |-> IF k = key THEN value ELSE new_env[k]]

RECURSIVE OverlayLines_KeepFirst(_, _, _, _)
\* a variable that is already set keeps its value
OverlayLines_KeepFirst(new_env, lines, i, strip) ==
    IF i > Len(lines) THEN new_env
    ELSE LET line == IF strip THEN Strip(lines[i]) ELSE lines[i]
             eqs == {j \in 1..Len(line) : line[j] = "="}
         IN  IF eqs = {} THEN OverlayLines_KeepFirst(new_env, lines, i + 1, strip)
             ELSE LET at == CHOOSE j \in eqs : \A k \in eqs : j <= k
                      key == SubSeq(line, 1, at - 1)
                  IN  OverlayLines_KeepFirst(
                          IF key \in DOMAIN new_env THEN new_env
                          ELSE SetVar(new_env, key, SubSeq(line, at + 1, Len(line))),
                          lines, i + 1, strip)

RECURSIVE OverlayLines(_, _, _, _)
\* for line in env_block.splitlines(), from the i-th line on; lint.py strips
\* the line first, build.py does not
OverlayLines(new_env, lines, i, strip) ==
    IF i > Len(lines) THEN new_env
    ELSE LET line == IF strip THEN Strip(lines[i]) ELSE lines[i]
             eqs == {j \in 1..Len(line) : line[j] = "="}
         IN  IF eqs = {} THEN OverlayLines(new_env, lines, i + 1, strip)
             ELSE LET at == CHOOSE j \in eqs : \A k \in eqs : j <= k
                  IN  OverlayLines(SetVar(new_env, SubSeq(line, 1, at - 1),
                                          SubSeq(line, at + 1, Len(line))),
                                   lines, i + 1, strip)

----------------------------------------------------------------------------
(* The cache staleness check, build.py is_cache_stale *)

\* a configuration-input file is as new as the cache, or newer
is_cache_stale_NotOlder(dir_exists, cache_file, cfgs) ==
    \/ ~dir_exists \/ ~cache_file.exists
    \/ \E c \in ConfigNames : cfgs[c].exists /\ cfgs[c].mtime >= cache_file.mtime

\* is_cache_stale(build_dir, root_dir) over what it reads of the file system
is_cache_stale(dir_exists, cache_file, cfgs) ==
    \/ ~dir_exists \/ ~cache_file.exists
    \/ \E c \in ConfigNames : cfgs[c].exists /\ cfgs[c].mtime > cache_file.mtime

\* the latest modification time
MaxTime == 1

Files == {NoFile} \cup {FileAt(t) : t \in 0..MaxTime}

\* the configuration-input files of the pipeline runs: CMakeLists.txt is
\* the newest, there is no user preset document and no vcpkg.json
PipelineConfigs ==
    [c \in ConfigNames |->
        CASE c = "CMakeLists.txt" -> FileAt(MaxTime)
          [] c = "CMakePresets.json" -> FileAt(0)
          [] OTHER -> NoFile]

\* the inputs of the check: CMakeCache.txt lies in the build directory
InitStale ==
    /\ pc = "stale-check"
    /\ files = NoFiles /\ file_idx = 0 /\ presets_map = EmptyMap
    /\ load_raised = FALSE /\ preset_name = "" /\ resolved = NotResolved
    /\ script = "none" /\ os_name = "posix" /\ environ = EmptyEnv /\ args = NoArgs
    /\ msvc_toolset = None /\ env = EmptyEnv /\ env_set = FALSE
    /\ boot_exit = "pending" /\ vcvars_arg = None
    /\ cc_exists = FALSE /\ events = <<>> /\ exit_code = Running
    /\ captured = <<>> /\ cmake_present = TRUE /\ tools = NoTools
    /\ stale = NoVerdict /\ runs = <<>> /\ out = <<>>
    /\ transcript = <<>> /\ printed = <<>> /\ issues = <<>> /\ StreamIdle
    /\ build_dir \in BOOLEAN
    /\ cache \in (IF build_dir THEN Files ELSE {NoFile})
    /\ configs \in [ConfigNames -> Files]

\* the call is_cache_stale(build_dir, root_dir)
CheckStale ==
    /\ pc = "stale-check"
    /\ stale' = Returned(is_cache_stale(build_dir, cache, configs))
    /\ pc' = "stale-checked"
    /\ UNCHANGED <<loadvars, mainvars, captured, cmake_present, tools, cache, configs,
                   runs, out, transcript, printed, issues, last_was_failed, parsed,
                   table, children, searched, cmd_extras, responses>>

NextStale == CheckStale

SpecStale == InitStale /\ [][NextStale]_vars

----------------------------------------------------------------------------
(* What the staleness check is checked against *)

\* the configuration-input files that exist
Inputs == {c \in ConfigNames : configs[c].exists}

\* C12 as stated: with the build directory and the cache both there, the
\* check reports not-stale exactly when the cache is newer than every input
\* that exists.
C12_AsStated ==
    stale.known =>
        /\ (~build_dir \/ ~cache.exists) => stale.value
        /\ (build_dir /\ cache.exists) =>
             (~stale.value <=> \A c \in Inputs : cache.mtime > configs[c].mtime)

\* C12: the check reports stale when the build directory or the cache is
\* missing; otherwise it reports stale exactly when an input that exists is
\* newer than the cache, so that an input as old as the cache leaves it
\* fresh; inputs that do not exist are passed over.
C12_Staleness ==
    stale.known =>
        /\ (~build_dir \/ ~cache.exists) => stale.value
        /\ (build_dir /\ cache.exists) =>
             /\ (\E c \in Inputs : configs[c].mtime > cache.mtime) => stale.value
             /\ (\A c \in Inputs : configs[c].mtime <= cache.mtime) => ~stale.value

\* C12's case: an input with the cache's modification time, another input
\* that is missing, and the check reports fresh
C12_Witness ==
    /\ pc = "stale-checked" /\ stale.known /\ ~stale.value
    /\ build_dir /\ cache.exists
    /\ \E c \in Inputs : configs[c].mtime = cache.mtime
    /\ Inputs # ConfigNames /\ Inputs # {}

----------------------------------------------------------------------------
(* The pipelines: lint.py main and build.py main *)

\* the nonzero statuses a child process ends with
FailCodes == {1, 2}

Stages == {"configure", "build", "test", "lint"}

ArgsOf(scr) ==
    IF scr = "lint"
    THEN {[NoArgs EXCEPT !.preset = DefaultPreset, !.explicit_toolset = t,
                         !.fix = fx, !.force = fo] :
            t \in {None, Some(<<>>), Some(Version("C"))}, fx \in BOOLEAN, fo \in BOOLEAN}
    ELSE {[NoArgs EXCEPT !.preset = DefaultPreset, !.skip_tests = sk,
                         !.reconfigure = rc, !.clean = cl] :
            sk \in BOOLEAN, rc \in BOOLEAN, cl \in BOOLEAN}

Init ==
    /\ files = NoFiles /\ file_idx = 0 /\ presets_map = EmptyMap
    /\ load_raised = FALSE /\ preset_name = "" /\ resolved = NotResolved
    /\ script \in {"lint", "build"}
    /\ pc = IF script = "lint" THEN "detect" ELSE "bootstrap"
    /\ os_name \in {"nt", "posix"}
    /\ environ \in PipelineEnvs
    /\ args \in ArgsOf(script)
    /\ msvc_toolset = args.explicit_toolset
    /\ env = EmptyEnv /\ env_set = FALSE
    /\ boot_exit = "pending" /\ vcvars_arg = None
    /\ build_dir \in BOOLEAN
    /\ cc_exists \in (IF script = "lint" /\ build_dir THEN BOOLEAN ELSE {FALSE})
    /\ events = <<>> /\ exit_code = Running
    /\ captured \in PipelineOutputs /\ cmake_present \in BOOLEAN /\ tools = NoTools
    /\ cache \in (IF script = "build" /\ build_dir THEN Files ELSE {NoFile})
    /\ configs = PipelineConfigs
    /\ stale = NoVerdict /\ runs = <<>> /\ out = <<>>
    /\ transcript = <<>> /\ printed = <<>> /\ issues = <<>> /\ StreamIdle

\* sys.exit(code) in the bootstrap
Exit(code) == pc' = "exited" /\ exit_code' = code

\* get_msvc_environment ends the process: sys.exit(1), or an exception
\* nothing catches, which ends Python with status 1
BootExit(reason) ==
    /\ boot_exit' = reason /\ Exit(1) /\ UNCHANGED <<env, env_set>>

\* every return of the bootstrap ends the process instead
ReturnEnv_Exits(e, reason) == BootExit(reason)

\* get_msvc_environment returns the mapping e to main
ReturnEnv(e, reason) ==
    /\ env' = e /\ env_set' = TRUE /\ boot_exit' = reason
    /\ pc' = "probe" /\ UNCHANGED exit_code

\* the preset is asked for its toolset whatever the command line gave
should_detect_Always(os, toolset) == os = "nt"

\* lint.py main, step 1: if os.name == "nt" and args.msvc_toolset is None
should_detect(os, toolset) == os = "nt" /\ toolset.isNone

\* lint.py main, step 1: the toolset of the preset, when none was given;
\* get_toolset_from_preset loads the documents and searches from the preset
LintDetectToolset ==
    /\ script = "lint" /\ pc = "detect"
    /\ IF should_detect(os_name, msvc_toolset)
       THEN \E fs \in DetectFiles :
              LET detected_toolset == get_toolset_from_preset(args.preset, fs)
              IN  /\ msvc_toolset' = IF Truthy(detected_toolset) THEN detected_toolset
                                     ELSE msvc_toolset
                  /\ files' = fs /\ file_idx' = Len(preset_files)
                  /\ presets_map' = LoadFiles(fs, EmptyMap, 1)
                  /\ preset_name' = args.preset
                  /\ resolved' = StartSearch(LoadFiles(fs, EmptyMap, 1), args.preset)
                  /\ UNCHANGED load_raised
       ELSE UNCHANGED <<msvc_toolset, loadvars>>
    /\ pc' = "bootstrap"
    /\ UNCHANGED <<stagevars, captured, script, os_name, environ, args, env, env_set,
                   boot_exit, vcvars_arg, build_dir, cc_exists, events, exit_code>>

\* the compiler environment is left alone whenever one is active
LintEarlyReturn_IgnoresToolset(os, ambient, toolset_version) ==
    IF os # "nt" THEN "not-windows"
    ELSE IF K_VCINSTALLDIR \in DOMAIN ambient THEN "already-active"
    ELSE "none"

\* lint.py get_msvc_environment: the returns before anything is looked for
LintEarlyReturn(os, ambient, toolset_version) ==
    IF os # "nt" THEN "not-windows"
    ELSE IF K_VCINSTALLDIR \in DOMAIN ambient /\ ~Truthy(toolset_version)
    THEN "already-active"
    ELSE "none"

\* build.py get_msvc_environment: the returns before anything is looked for
BuildEarlyReturn(os, ambient) ==
    IF os # "nt" THEN "not-windows"
    ELSE IF K_VCINSTALLDIR \in DOMAIN ambient THEN "already-active"
    ELSE "none"

\* lint.py get_msvc_environment up to the locator: the early returns, then
\* vswhere on PATH, at its default place, or nowhere
LintBootEnter ==
    /\ script = "lint" /\ pc = "bootstrap"
    /\ LET early == LintEarlyReturn(os_name, environ, msvc_toolset)
       IN  IF early # "none" THEN ReturnEnv(environ, early)
           ELSE \E vswhere \in {"path", "default", "none"} :
                  IF vswhere = "none" THEN ReturnEnv(environ, "no-locator")
                  ELSE /\ pc' = "vswhere"
                       /\ UNCHANGED <<env, env_set, boot_exit, exit_code>>
    /\ UNCHANGED <<loadvars, stagevars, captured, script, os_name, environ, args, msvc_toolset,
                   vcvars_arg, build_dir, cc_exists, events>>

\* lint.py: vswhere is run, then vcvars64.bat is looked for; only
\* CalledProcessError is handled around the run
LintRunVswhere ==
    /\ script = "lint" /\ pc = "vswhere"
    /\ events' = Append(events, "vswhere")
    /\ \E located \in {"raises", "nonzero", "empty", "path"} :
         CASE located = "raises" -> BootExit("locator-raised")
           [] located = "nonzero" -> ReturnEnv(environ, "locator-failed")
           [] located = "empty" -> ReturnEnv(environ, "no-install")
           [] OTHER ->
                \E vcvars_exists \in BOOLEAN :
                   IF ~vcvars_exists THEN ReturnEnv(environ, "no-vcvars")
                   ELSE /\ pc' = "script"
                        /\ UNCHANGED <<env, env_set, boot_exit, exit_code>>
    /\ UNCHANGED <<loadvars, stagevars, captured, script, os_name, environ, args, msvc_toolset,
                   vcvars_arg, build_dir, cc_exists>>

\* the handler catches BaseException, SystemExit with it
BootstrapCatches_BaseException(exc) == TRUE

\* lint.py get_msvc_environment's "except Exception as e"
BootstrapCatches(exc) == exc \in ExceptionClasses

\* lint.py: the nested shell runs vcvars64.bat, echoes the separator and
\* dumps the environment.  subprocess.run raises, or the shell ends with a
\* status; a nonzero status is sys.exit(1) inside the try statement.
LintRunScript ==
    /\ script = "lint" /\ pc = "script"
    /\ events' = Append(events, "vcvars")
    /\ vcvars_arg' = IF Truthy(msvc_toolset) THEN msvc_toolset ELSE None
    /\ \E outcome \in {"raises", "nonzero", "zero"} :
         CASE outcome = "raises" ->
                IF BootstrapCatches("OSError") THEN ReturnEnv(environ, "script-raised")
                ELSE BootExit("script-raised")
           [] outcome = "nonzero" ->
                IF BootstrapCatches("SystemExit") THEN ReturnEnv(environ, "script-failed")
                ELSE BootExit("script-failed")
           [] OTHER ->
                LET output == captured
                IN  IF ~HasSeparator(output) THEN ReturnEnv(environ, "no-separator")
                    ELSE ReturnEnv(OverlayLines(environ, EnvBlock(output), 1, TRUE),
                                   "loaded")
    /\ UNCHANGED <<loadvars, stagevars, captured, script, os_name, environ, args, msvc_toolset,
                   build_dir, cc_exists>>

\* build.py get_msvc_environment up to the locator
BuildBootEnter ==
    /\ script = "build" /\ pc = "bootstrap"
    /\ LET early == BuildEarlyReturn(os_name, environ)
       IN  IF early # "none" THEN ReturnEnv(environ, early)
           ELSE \E vswhere \in {"path", "default", "none"} :
                  IF vswhere = "none" THEN BootExit("no-locator")
                  ELSE /\ pc' = "vswhere"
                       /\ UNCHANGED <<env, env_set, boot_exit, exit_code>>
    /\ UNCHANGED <<loadvars, stagevars, captured, script, os_name, environ, args, msvc_toolset,
                   vcvars_arg, build_dir, cc_exists, events>>

\* build.py: vswhere is run, then vcvars64.bat is looked for
BuildRunVswhere ==
    /\ script = "build" /\ pc = "vswhere"
    /\ events' = Append(events, "vswhere")
    /\ \E located \in {"raises", "nonzero", "empty", "path"} :
         CASE located = "raises" -> BootExit("locator-raised")
           [] located = "nonzero" -> BootExit("locator-failed")
           [] located = "empty" -> BootExit("no-install")
           [] OTHER ->
                \E vcvars_exists \in BOOLEAN :
                   IF ~vcvars_exists THEN BootExit("no-vcvars")
                   ELSE /\ pc' = "script"
                        /\ UNCHANGED <<env, env_set, boot_exit, exit_code>>
    /\ UNCHANGED <<loadvars, stagevars, captured, script, os_name, environ, args, msvc_toolset,
                   vcvars_arg, build_dir, cc_exists>>

\* build.py: subprocess.check_output of the nested shell; a nonzero status
\* raises CalledProcessError, which nothing catches
BuildRunScript ==
    /\ script = "build" /\ pc = "script"
    /\ events' = Append(events, "vcvars")
    /\ \E outcome \in {"nonzero", "zero"} :
         IF outcome = "nonzero" THEN BootExit("script-failed")
         ELSE LET output == captured
              IN  IF ~HasSeparator(output) THEN BootExit("no-separator")
                  ELSE ReturnEnv(OverlayLines(environ, EnvBlock(output), 1, FALSE),
                                 "loaded")
    /\ UNCHANGED <<loadvars, stagevars, captured, script, os_name, environ, args, msvc_toolset,
                   vcvars_arg, build_dir, cc_exists>>

\* get_msvc_environment as it is about to run the nested shell: on Windows,
\* past the early returns, vswhere has named an installation with a
\* vcvars64.bat
InitOverlay ==
    /\ pc = "script"
    /\ files = NoFiles /\ file_idx = 0 /\ presets_map = EmptyMap
    /\ load_raised = FALSE /\ preset_name = "" /\ resolved = NotResolved
    /\ script \in {"lint", "build"}
    /\ os_name = "nt"
    /\ environ \in AmbientEnvs
    /\ args = [NoArgs EXCEPT !.preset = DefaultPreset]
    /\ msvc_toolset \in (IF script = "lint" THEN {None, Some(Version("C"))} ELSE {None})
    /\ IF script = "lint" THEN LintEarlyReturn(os_name, environ, msvc_toolset) = "none"
       ELSE BuildEarlyReturn(os_name, environ) = "none"
    /\ env = EmptyEnv /\ env_set = FALSE
    /\ boot_exit = "pending" /\ vcvars_arg = None
    /\ build_dir = FALSE /\ cc_exists = FALSE
    /\ events = <<"vswhere">> /\ exit_code = Running
    /\ captured \in Outputs /\ cmake_present = TRUE /\ tools = NoTools
    /\ cache = NoFile /\ configs = PipelineConfigs
    /\ stale = NoVerdict /\ runs = <<>> /\ out = <<>>
    /\ transcript = <<>> /\ printed = <<>> /\ issues = <<>> /\ StreamIdle

NextOverlay == LintRunScript \/ BuildRunScript

SpecOverlay == InitOverlay /\ [][NextOverlay]_vars

----------------------------------------------------------------------------
(* What the environment overlay is checked against *)

\* the line as the script reads it: lint.py strips it, build.py does not
LineRead(line, lint_strips) ==
    IF lint_strips /\ script = "lint" THEN Strip(line) ELSE line

FirstEq(line) ==
    LET eqs == {j \in 1..Len(line) : line[j] = "="}
    IN  CHOOSE j \in eqs : \A k \in eqs : j <= k

KeyOf(line) == SubSeq(line, 1, FirstEq(line) - 1)

ValueOf(line) == SubSeq(line, FirstEq(line) + 1, Len(line))

\* the returned mapping is the ambient environment overlaid with the
\* KEY=VALUE lines captured after the separator, the last line of a key
\* winning
OverlayIs(lint_strips) ==
    LET line(i) == LineRead(captured[i], lint_strips)
        after == {i \in 1..Len(captured) :
                     \E j \in 1..(i - 1) : SepToken \in Range(captured[j])}
        kv == {i \in after : "=" \in Range(line(i))}
        keys == {KeyOf(line(i)) : i \in kv}
    IN  /\ DOMAIN env = DOMAIN environ \cup keys
        /\ \A k \in keys :
             LET of_k == {i \in kv : KeyOf(line(i)) = k}
                 last == CHOOSE i \in of_k : \A j \in of_k : j <= i
             IN  env[k] = ValueOf(line(last))
        /\ \A k \in DOMAIN environ \ keys : env[k] = environ[k]

\* C11 as stated: in both pipelines the returned mapping is the ambient
\* environment overlaid with the captured KEY=VALUE lines as they were
\* written.
C11_AsStated == boot_exit = "loaded" => OverlayIs(FALSE)

\* C11: after a successful bootstrap the returned mapping holds VALUE for
\* KEY for every KEY=VALUE line after the separator, split at the first "=",
\* the last line of a key winning, and every other ambient variable with its
\* ambient value; lines before the separator and lines without "=" add
\* nothing.  The lint pipeline reads each line stripped of the white space
\* around it, the build pipeline reads it as it is.
C11_Overlay == boot_exit = "loaded" => OverlayIs(TRUE)

\* C11's case: K is set in the ambient environment, once before the
\* separator and twice after it
C11_Witness ==
    /\ boot_exit = "loaded" /\ env_set
    /\ K_K \in DOMAIN environ /\ environ[K_K] = <<"o">>
    /\ captured = <<<<"K", "=", "v">>, SepLine, <<"K", "=", "a", "=", "b">>>>
    /\ env[K_K] = <<"a", "=", "b">>
    /\ env[K_PATH] = environ[K_PATH]

----------------------------------------------------------------------------
(* The tool probe: build.py ProjectContext, lint.py Toolchain *)

VersionLine == "cmake version 3.28"

\* the first line the shell writes for a command it cannot find
ShellErrorLine == "'cmake' is not recognized as an internal or external command,"

\* What launching a probe command does.  Without a shell a missing executable
\* is FileNotFoundError; through the shell (os.name == "nt") the shell is
\* what is launched, and it reports the missing command on its error stream.
LaunchOutcomes(os, present) ==
    IF present THEN {"line", "empty", "PermissionError", "OSError"}
    ELSE IF os = "nt" THEN {"shell-error"}
    ELSE {"FileNotFoundError"}

\* the outcomes for the tools other than cmake
OtherOutcomes(os, present) == LaunchOutcomes(os, present) \ {"empty", "PermissionError"}

\* build.py ProjectContext._get_version: no exception leaves it
BuildGetVersion(outcome) ==
    CASE outcome = "line" -> [raised |-> FALSE, value |-> VersionLine]
      [] outcome = "shell-error" -> [raised |-> FALSE, value |-> ShellErrorLine]
      [] outcome = "empty" -> [raised |-> FALSE, value |-> "Unknown"]
      [] outcome = "FileNotFoundError" -> [raised |-> FALSE, value |-> "Not found"]
      [] OTHER -> [raised |-> FALSE, value |-> "Error"]

\* every exception is caught and reported as "Error"
LintGetVersion_CatchesAll(outcome) ==
    CASE outcome = "line" -> [raised |-> FALSE, value |-> VersionLine]
      [] outcome = "shell-error" -> [raised |-> FALSE, value |-> ShellErrorLine]
      [] outcome = "empty" -> [raised |-> FALSE, value |-> "Unknown"]
      [] outcome = "FileNotFoundError" -> [raised |-> FALSE, value |-> "Not found"]
      [] OTHER -> [raised |-> FALSE, value |-> "Error"]

\* lint.py Toolchain._get_version: FileNotFoundError and PermissionError are
\* caught, another exception of subprocess.run leaves it
LintGetVersion(outcome) ==
    CASE outcome = "line" -> [raised |-> FALSE, value |-> VersionLine]
      [] outcome = "shell-error" -> [raised |-> FALSE, value |-> ShellErrorLine]
      [] outcome = "empty" -> [raised |-> FALSE, value |-> "Unknown"]
      [] outcome \in {"FileNotFoundError", "PermissionError"} ->
           [raised |-> FALSE, value |-> "Not found"]
      [] OTHER -> [raised |-> TRUE, value |-> ""]

\* the tools each probe asks for
BuildToolNames(os) ==
    {"cmake", "git", "ninja"} \cup (IF os = "nt" THEN {"msvc"} ELSE {"gcc", "clang"})

LintToolNames(os) ==
    {"cmake", "clang-tidy"} \cup (IF os = "nt" THEN {"msvc"} ELSE {"clang"})

\* probe(): cmake is launched with one outcome, the other tools with another
BuildProbeReport(os, cmake_outcome, other_outcome) ==
    [t \in BuildToolNames(os) |->
        BuildGetVersion(IF t = "cmake" THEN cmake_outcome ELSE other_outcome).value]

LintProbeReport(os, cmake_outcome, other_outcome) ==
    [t \in LintToolNames(os) |->
        LintGetVersion(IF t = "cmake" THEN cmake_outcome ELSE other_outcome).value]

LintProbeRaises(cmake_outcome, other_outcome) ==
    LintGetVersion(cmake_outcome).raised \/ LintGetVersion(other_outcome).raised

----------------------------------------------------------------------------
(* The runners' transcripts *)

\* A line of ctest's output is a sequence of pieces: each phrase run_command
\* looks for is one piece, " " is white space and "x" is any other text
SummaryPhrases ==
    {"tests passed", "tests failed", "Total Test time", "following tests FAILED"}

\* phrase in line
Contains(line, phrase) == \E i \in 1..Len(line) : line[i] = phrase

\* line.startswith(phrase)
StartsWith(line, phrase) == line # <<>> /\ line[1] = phrase

\* the status lines are those with a fail marker only
IsStatusLine_FailedOnly(trimmed) ==
    Contains(trimmed, "Test #") /\ Contains(trimmed, "Failed")

\* run_command: is_status_line
IsStatusLine(trimmed) ==
    Contains(trimmed, "Test #")
    /\ (Contains(trimmed, "Passed") \/ Contains(trimmed, "Failed"))

\* run_command: trimmed.startswith("Start ") and ":" in trimmed
IsStartLine(trimmed) == StartsWith(trimmed, "Start ") /\ Contains(trimmed, ":")

\* only the two counts are summary lines
IsSummary_CountsOnly(trimmed) ==
    Contains(trimmed, "tests passed") \/ Contains(trimmed, "tests failed")

\* run_command: is_summary
IsSummary(trimmed) == \E x \in SummaryPhrases : Contains(trimmed, x)

\* what one pass of the loop does: the lines it prints and last_was_failed
\* after it
Pass(lines, flag) == [printed |-> lines, last_was_failed |-> flag]

\* the output that follows a failed test is dropped
TestLineStep_DropsDetails(line, flag) ==
    LET trimmed == Strip(line)
    IN  IF trimmed = <<>> THEN Pass(<<>>, flag)
        ELSE IF IsStatusLine(trimmed)
        THEN IF Contains(trimmed, "Passed") THEN Pass(<<>>, FALSE)
             ELSE Pass(<<trimmed>>, TRUE)
        ELSE IF IsStartLine(trimmed) THEN Pass(<<>>, flag)
        ELSE IF IsSummary(trimmed) THEN Pass(<<trimmed>>, FALSE)
        ELSE Pass(<<>>, flag)

\* the banner and the other lines are printed outside a failed test's output
TestLineStep_PrintsNoise(line, flag) ==
    LET trimmed == Strip(line)
    IN  IF trimmed = <<>> THEN Pass(<<>>, flag)
        ELSE IF IsStatusLine(trimmed)
        THEN IF Contains(trimmed, "Passed") THEN Pass(<<>>, FALSE)
             ELSE Pass(<<trimmed>>, TRUE)
        ELSE IF IsStartLine(trimmed) THEN Pass(<<>>, flag)
        ELSE IF IsSummary(trimmed) THEN Pass(<<trimmed>>, FALSE)
        ELSE Pass(<<trimmed>>, flag)

\* run_command with quiet_tests: one pass of the loop over process.stdout,
\* flag being last_was_failed before it
TestLineStep(line, flag) ==
    LET trimmed == Strip(line)
    IN  IF trimmed = <<>> THEN Pass(<<>>, flag)
        ELSE IF IsStatusLine(trimmed)
        THEN IF Contains(trimmed, "Passed") THEN Pass(<<>>, FALSE)
             ELSE Pass(<<trimmed>>, TRUE)
        ELSE IF IsStartLine(trimmed) THEN Pass(<<>>, flag)
        ELSE IF IsSummary(trimmed) THEN Pass(<<trimmed>>, FALSE)
        ELSE IF flag THEN Pass(<<trimmed>>, flag)
        ELSE Pass(<<>>, flag)

RECURSIVE TestFilter(_, _, _)
\* run_command with quiet_tests: the loop from the i-th line on, done being
\* what was printed before it and last_was_failed
TestFilter(lines, i, done) ==
    IF i > Len(lines) THEN done
    ELSE LET step == TestLineStep(lines[i], done.last_was_failed)
         IN  TestFilter(lines, i + 1,
                        Pass(done.printed \o step.printed, step.last_was_failed))

\* lines of ctest's output: "12/40 Test #12: name ... Passed 0.01 sec",
\* "Start 12: name", "100% tests passed", an empty line, a line of a test's
\* own output
PassedLine == <<"x", "Test #", "x", ":", "x", "Passed", "x">>
FailedLine == <<"x", "Test #", "x", ":", "x", "Failed", "x">>
StartLine == <<"Start ", "x", ":", "x">>
SummaryLine == <<"x", "tests passed", "x">>
BlankLine == <<>>
DetailLine == <<"x">>

\* the transcripts of the test runs
TestTranscripts ==
    {<<>>, <<PassedLine>>, <<FailedLine, DetailLine>>,
     <<StartLine, PassedLine, SummaryLine>>, <<DetailLine, BlankLine, FailedLine>>}

\* The lines the filter is checked on: an opening phrase, the test number,
\* text, a colon, the two markers and a summary phrase, each there or not,
\* bare or in white space
TestLineShapes ==
    [padded : BOOLEAN, opening : {"", "Start ", "Test project"}, number : BOOLEAN,
     text : BOOLEAN, colon : BOOLEAN, passed : BOOLEAN, failed : BOOLEAN,
     summary : {""} \cup SummaryPhrases]

Piece(on, phrase) == IF on THEN <<phrase>> ELSE <<>>

TestLineOf(c) ==
    Piece(c.padded, " ") \o Piece(c.opening # "", c.opening) \o Piece(c.number, "Test #")
    \o Piece(c.text, "x") \o Piece(c.colon, ":") \o Piece(c.passed, "Passed")
    \o Piece(c.failed, "Failed") \o Piece(c.summary # "", c.summary)
    \o Piece(c.padded, " ")

TestLines == {TestLineOf(c) : c \in TestLineShapes}

\* A line of the lint runner's output is a sequence of pieces: ":", " ",
\* "[", "]", the line feed, a digit and the letter "C" are single characters,
\* an escape sequence is one piece, and every other piece is a word without
\* a colon in it
AnsiPieces == {"ESC[0m", "ESC[1m"}

\* [a-zA-Z], the pieces that are one letter
Letters == {"C"}

\* (error|warning|note)
Severities == {"error", "warning", "note"}

\* the escape character alone: a piece of AnsiPieces is a whole sequence,
\* the piece "ESC" the character that may begin one with the pieces after it
Esc == "ESC"

\* the pieces that are one character; every other piece but those of
\* AnsiPieces is a word, of two characters or more
Characters == Digits \cup Whitespace \cup {":", "[", "]", "C", Esc}

IsWord(piece) == piece \notin Characters \cup AnsiPieces

\* the words that begin with a capital letter; every other word, "f", "m",
\* "c" and "x" for a file name, a message, a check and any other text with
\* them, begins with a small letter
CapitalWords == {"Suppressed", "Enabled checks"}

\* a word without its first character, other text when it was other text
WordTail(w) ==
    CASE w = "error" -> "rror" [] w = "warning" -> "arning" [] w = "note" -> "ote"
      [] w = "remark" -> "emark" [] w = "warnings generated" -> "arnings generated"
      [] w = "non-user code" -> "on-user code" [] w = "Suppressed" -> "uppressed"
      [] w = "Enabled checks" -> "nabled checks" [] OTHER -> "x"

\* [@-Z\\-_], the pieces that begin with such a character: ESC and one of
\* them is a sequence
C1Class == {"C", "]"} \cup CapitalWords

\* [0-?] and [ -/], the pieces that are such a character
ParameterClass == Digits \cup {":"}
IntermediateClass == {" "}

\* [@-~], the pieces that begin with such a character
FinalClass(piece) == piece \in {"C", "[", "]"} \/ IsWord(piece)

\* OutputParser.ansi_escape matched at the escape character text[i]: the
\* index of the piece its last character is in, 0 when it does not match.
\* The three classes of \[[0-?]*[ -/]*[@-~] share no character, so the
\* greedy match is the only one.
ansi_escape(text, i) ==
    IF i + 1 > Len(text) THEN 0
    ELSE IF text[i + 1] \in C1Class THEN i + 1
    ELSE IF text[i + 1] # "[" THEN 0
    ELSE LET k == SkipClass(text, SkipClass(text, i + 2, ParameterClass),
                            IntermediateClass)
         IN  IF k <= Len(text) /\ FinalClass(text[k]) THEN k ELSE 0

\* what is left of the piece a sequence ends in
AfterSequence(piece) == IF IsWord(piece) THEN <<WordTail(piece)>> ELSE <<>>

RECURSIVE Sub(_, _)
\* ansi_escape.sub("", text) from the i-th piece on: the matches are looked
\* for from left to right, each after the end of the one before
Sub(text, i) ==
    IF i > Len(text) THEN <<>>
    ELSE IF text[i] \in AnsiPieces THEN Sub(text, i + 1)
    ELSE IF text[i] = Esc /\ ansi_escape(text, i) # 0
    THEN AfterSequence(text[ansi_escape(text, i)]) \o Sub(text, ansi_escape(text, i) + 1)
    ELSE <<text[i]>> \o Sub(text, i + 1)

\* OutputParser.strip_ansi
strip_ansi(text) == Sub(text, 1)

\* sub in line, for a phrase sub of one piece or more
Has(line, sub) ==
    \E i \in 1..(Len(line) - Len(sub) + 1) : SubSeq(line, i, i + Len(sub) - 1) = sub

\* the first index >= i of s that holds piece, Len(s) + 1 when there is none
FirstAt(s, i, piece) ==
    LET hit == {j \in i..Len(s) : s[j] = piece}
    IN  IF hit = {} THEN Len(s) + 1
        ELSE CHOOSE j \in hit : \A k \in hit : j <= k

\* where " [" may part the message from the check: the message, from r on,
\* and the check, up to the closing bracket, are not empty
MessageEnds(s, r) ==
    {j \in (r + 1)..(Len(s) - 3) : s[j] = " " /\ s[j + 1] = "["}

\* the message is the shortest that lets the rest match
MessageEnd_Shortest(s, r) ==
    CHOOSE j \in MessageEnds(s, r) : \A k \in MessageEnds(s, r) : j <= k

\* (.+) \[(.+)\]$ from r on: the greedy message is the longest that lets
\* the rest match
MessageEnd(s, r) ==
    CHOOSE j \in MessageEnds(s, r) : \A k \in MessageEnds(s, r) : k <= j

\* no match, and a match with its six groups
NoMatch == <<>>

\* the six groups of a match: the path ends at c1, the line at d1, the
\* column at d2 and the message at j
Groups(s, c1, d1, d2, j) ==
    <<[file |-> SubSeq(s, 1, c1 - 1), line |-> SubSeq(s, c1 + 1, d1 - 1),
       col |-> SubSeq(s, d1 + 1, d2 - 1), severity |-> s[d2 + 2],
       message |-> SubSeq(s, d2 + 5, j - 1), check |-> SubSeq(s, j + 2, Len(s) - 1)]>>

\* : (error|warning|note): (.+) \[(.+)\]$ from the colon at d2 on
MatchTail(s, c1, d1, d2) ==
    IF /\ d2 > d1 + 1 /\ d2 + 4 <= Len(s) /\ s[d2] = ":"
       /\ s[d2 + 1] = " " /\ s[d2 + 2] \in Severities
       /\ s[d2 + 3] = ":" /\ s[d2 + 4] = " "
       /\ s[Len(s)] = "]" /\ MessageEnds(s, d2 + 5) # {}
    THEN Groups(s, c1, d1, d2, MessageEnd(s, d2 + 5))
    ELSE NoMatch

\* :(\d+) and the rest from the colon at d1 on
MatchColumn(s, c1, d1) ==
    IF d1 > c1 + 1 /\ d1 <= Len(s) /\ s[d1] = ":"
    THEN MatchTail(s, c1, d1, SkipClass(s, d1 + 1, Digits))
    ELSE NoMatch

\* :(\d+) and the rest from the colon at c1 on, the path beginning at start
MatchLine(s, start, c1) ==
    IF c1 > start /\ c1 <= Len(s) THEN MatchColumn(s, c1, SkipClass(s, c1 + 1, Digits))
    ELSE NoMatch

\* [^:]+):(\d+):(\d+): (error|warning|note): (.+) \[(.+)\]$ from start on,
\* group 1 beginning at the first piece
MatchFrom(s, start) == MatchLine(s, start, FirstAt(s, start, ":"))

\* the match with the drive prefix, and the match without it when that fails
FirstMatch(drive, s) == IF drive # NoMatch THEN drive ELSE MatchFrom(s, 1)

\* OutputParser.pattern.match: the drive prefix is tried first
pattern_match(s) ==
    FirstMatch(IF Len(s) >= 2 /\ s[1] \in Letters /\ s[2] = ":"
               THEN MatchFrom(s, 3) ELSE NoMatch, s)

\* what parse_line returns, and what it appends to parser.issues
Parsed(match, appended) == [issue |-> match, appended |-> appended]

\* every matched line is retained
Retain_Notes(match) == Parsed(match, match)

\* OutputParser.parse_line after the match: the issue is appended when its
\* severity is error or warning, and returned
Retain(match) ==
    IF match # NoMatch /\ match[1].severity \in {"error", "warning"}
    THEN Parsed(match, match)
    ELSE Parsed(match, NoMatch)

\* the white space is stripped before the escape sequences are
parse_line_StripsFirst(line) == Retain(pattern_match(strip_ansi(Strip(line))))

\* OutputParser.parse_line: clean_line, the match, the issue
parse_line(line) == Retain(pattern_match(Strip(strip_ansi(line))))

NoisePhrase(stripped) ==
    \/ Has(stripped, <<"warnings generated">>)
    \/ Has(stripped, <<"Suppressed">>) /\ Has(stripped, <<"non-user code">>)

\* the verbose mode shows the noise lines too
PlainTextShown_VerboseFirst(line, verbose) ==
    LET stripped == Strip(line)
    IN  /\ stripped # <<>>
        /\ \/ verbose
           \/ /\ ~NoisePhrase(stripped)
              /\ Has(stripped, <<"error", ":">>) \/ Has(stripped, <<"Enabled checks", ":">>)

\* run_lint_streaming: whether a line parse_line found no issue in is printed
PlainTextShown(line, verbose) ==
    LET stripped == Strip(line)
    IN  IF stripped = <<>> THEN FALSE
        ELSE IF Has(stripped, <<"warnings generated">>) THEN FALSE
        ELSE IF Has(stripped, <<"Suppressed">>) /\ Has(stripped, <<"non-user code">>)
        THEN FALSE
        ELSE verbose \/ Has(stripped, <<"error", ":">>)
                     \/ Has(stripped, <<"Enabled checks", ":">>)

\* a line run_lint_streaming prints: an issue, or the text of a plain line
Shown(issue, text) == [issue |-> issue, text |-> text]

\* what the loop has done: what parse_line returned last, the issues
\* appended to parser.issues and the lines printed
Streamed(last, retained, shown) ==
    [parsed |-> last, issues |-> retained, printed |-> shown]

\* run_lint_streaming: the body of the loop after parser.parse_line(line)
\* returned p
LinePrinted(p, line, verbose) ==
    IF p.issue # NoMatch THEN Streamed(p.issue, p.appended, <<Shown(p.issue, <<>>)>>)
    ELSE IF PlainTextShown(line, verbose)
    THEN Streamed(p.issue, p.appended, <<Shown(NoMatch, Strip(line))>>)
    ELSE Streamed(p.issue, p.appended, <<>>)

\* run_lint_streaming: one pass of the loop over process.stdout
LintLineStep(line, verbose) == LinePrinted(parse_line(line), line, verbose)

\* what the loop has done after one more pass
After(done, step) ==
    Streamed(step.parsed, done.issues \o step.issues, done.printed \o step.printed)

RECURSIVE LintStream(_, _, _, _)
\* run_lint_streaming: the loop from the i-th line on
LintStream(lines, i, verbose, done) ==
    IF i > Len(lines) THEN done
    ELSE LintStream(lines, i + 1, verbose, After(done, LintLineStep(lines[i], verbose)))

\* a line of clang-tidy's output with the severity v, and one the pattern
\* finds nothing in
LintLine(v) ==
    <<"f", ":", "1", "2", ":", "5", ":", " ", v, ":", " ", "m", " ", "[", "c", "]", "\n">>

PlainLine == <<"m", "\n">>

\* the transcripts of the lint runs
LintTranscripts ==
    {<<>>, <<PlainLine>>, <<LintLine("note")>>, <<LintLine("error")>>,
     <<LintLine("warning"), LintLine("note")>>,
     <<LintLine("error"), LintLine("note"), LintLine("warning")>>}


\* The lines the parser is checked on: a path, with a drive or without, a
\* line number and a column, a word for the severity, a message, with
\* brackets in it or without, and a check in brackets, empty brackets or
\* none; bare, in white space, or in escape sequences
LintShapes ==
    [wrap : {"bare", "space", "ansi"}, form : {"posix", "drive", "brackets"},
     severity : Severities \cup {"remark"}, bracket : {"check", "empty", "none"}]

ShapeFile(c) == (IF c.form = "drive" THEN <<"C", ":">> ELSE <<>>) \o <<"f">>

ShapeMessage(c) ==
    IF c.form = "brackets" THEN <<"m", " ", "[", "m", "]", " ", "m">> ELSE <<"m">>

LintLineOf(c) ==
    (CASE c.wrap = "space" -> <<" ">> [] c.wrap = "ansi" -> <<"ESC[1m">> [] OTHER -> <<>>)
    \o ShapeFile(c) \o <<":", "1", "2", ":", "5", ":", " ">>
    \o (IF c.wrap = "ansi" THEN <<"ESC[0m", "ESC[1m">> ELSE <<>>)
    \o <<c.severity, ":", " ">> \o ShapeMessage(c)
    \o (CASE c.bracket = "check" -> <<" ", "[", "c", "]">>
          [] c.bracket = "empty" -> <<" ", "[", "]">>
          [] OTHER -> <<>>)
    \o (CASE c.wrap = "space" -> <<" ">> [] c.wrap = "ansi" -> <<"ESC[0m">> [] OTHER -> <<>>)
    \o <<"\n">>

\* The plain lines: words and the phrases the loop looks for, each there or
\* not
PlainShapes ==
    [suppressed : BOOLEAN, text : BOOLEAN, generated : BOOLEAN, nonuser : BOOLEAN,
     error : BOOLEAN, enabled : BOOLEAN]

PlainLineOf(c) ==
    Piece(c.suppressed, "Suppressed") \o Piece(c.text, "m")
    \o Piece(c.generated, "warnings generated") \o Piece(c.nonuser, "non-user code")
    \o (IF c.error THEN <<"error", ":">> ELSE <<>>)
    \o (IF c.enabled THEN <<"Enabled checks", ":">> ELSE <<>>)
    \o <<"\n">>

LintLines == {LintLineOf(c) : c \in LintShapes} \cup {PlainLineOf(c) : c \in PlainShapes}

\* the checks of the issues, each once, in the order of their first
\* occurrence: the keys of the dict summary
SummaryKeys(found) ==
    LET first == {i \in 1..Len(found) : \A j \in 1..(i - 1) : found[j].check # found[i].check}
        nth(k) == CHOOSE i \in first : Cardinality({j \in first : j < i}) = k - 1
    IN  [k \in 1..Cardinality(first) |-> found[nth(k)].check]

\* summary.items(): a check and the number of issues that carry it
SummaryItems(found) ==
    LET keys == SummaryKeys(found)
    IN  [k \in 1..Len(keys) |->
            [check |-> keys[k],
             count |-> Cardinality({i \in 1..Len(found) : found[i].check = keys[k]})]]

\* the rows with equal counts come out in the reverse of their order
SortedByCount_TiesReversed(items) ==
    LET before(j, k) == items[j].count > items[k].count
                        \/ (items[j].count = items[k].count /\ j > k)
        at(p) == CHOOSE k \in 1..Len(items) :
                    Cardinality({j \in 1..Len(items) : before(j, k)}) = p - 1
    IN  [p \in 1..Len(items) |-> items[at(p)]]

\* sorted(items, key=count, reverse=True): the sort is stable, the rows with
\* equal counts keep their order
SortedByCount(items) ==
    LET before(j, k) == items[j].count > items[k].count
                        \/ (items[j].count = items[k].count /\ j < k)
        at(p) == CHOOSE k \in 1..Len(items) :
                    Cardinality({j \in 1..Len(items) : before(j, k)}) = p - 1
    IN  [p \in 1..Len(items) |-> items[at(p)]]

\* print_issue_summary_table: the rows printed, none without issues
IssueTable(found) == IF found = <<>> THEN <<>> ELSE SortedByCount(SummaryItems(found))

\* run_lint_streaming over each transcript, in the verbose mode and out of it
run_lint_streaming ==
    [lines \in LintTranscripts |->
        [verbose \in BOOLEAN |-> LintStream(lines, 1, verbose, Streamed(NoMatch, <<>>, <<>>))]]

\* print_issue_summary_table for the issues of each transcript
print_issue_summary_table ==
    [lines \in LintTranscripts |-> IssueTable(run_lint_streaming[lines][FALSE].issues)]

\* run_command with quiet_tests over each transcript
run_command ==
    [lines \in TestTranscripts |-> TestFilter(lines, 1, Pass(<<>>, FALSE))]

\* the verdict depends on the exit code alone
LintSuccess_CodeOnly(returncode, found) == returncode = 0

\* lint.py main: success = returncode == 0 and len(issues) == 0
LintSuccess(returncode, found) == returncode = 0 /\ Len(found) = 0

\* the verdict is a success whatever the exit code
TestSuccess_Always(returncode) == TRUE

\* build.py main: success = res.returncode == 0
TestSuccess(returncode) == returncode = 0

----------------------------------------------------------------------------
(* The stages: lint.py main and build.py main after the bootstrap *)

\* one invocation of a stage's tool
Run(stage, code, ok) == [stage |-> stage, code |-> code, ok |-> ok]

\* what a step of main may change, as it is before the step
Here ==
    [pc |-> pc, exit_code |-> exit_code, events |-> events, runs |-> runs,
     out |-> out, build_dir |-> build_dir, cache |-> cache, cc_exists |-> cc_exists,
     tools |-> tools, stale |-> stale, transcript |-> transcript,
     printed |-> printed, issues |-> issues, last_was_failed |-> last_was_failed,
     parsed |-> parsed, table |-> table, children |-> children,
     searched |-> searched, cmd_extras |-> cmd_extras, responses |-> responses]

\* the step leaves main as r says
Goto(r) ==
    /\ pc' = r.pc /\ exit_code' = r.exit_code /\ events' = r.events
    /\ runs' = r.runs /\ out' = r.out /\ build_dir' = r.build_dir
    /\ cache' = r.cache /\ cc_exists' = r.cc_exists /\ tools' = r.tools
    /\ stale' = r.stale /\ transcript' = r.transcript /\ printed' = r.printed
    /\ issues' = r.issues /\ last_was_failed' = r.last_was_failed
    /\ parsed' = r.parsed /\ table' = r.table /\ children' = r.children
    /\ searched' = r.searched /\ cmd_extras' = r.cmd_extras /\ responses' = r.responses
    /\ UNCHANGED <<loadvars, script, os_name, environ, args, msvc_toolset, env,
                   env_set, boot_exit, vcvars_arg, captured, cmake_present, configs>>

\* every exit reports success
Ended_Zero(r, code) == [r EXCEPT !.pc = "exited", !.exit_code = 0]

\* sys.exit(code) in main, and the end of main with code 0
Ended(r, code) == [r EXCEPT !.pc = "exited", !.exit_code = code]

\* an exception nothing catches: the traceback, and status 1
Crashed(r) == Ended([r EXCEPT !.out = Append(@, "Traceback")], 1)

\* print(...)
Printing(r, what) == [r EXCEPT !.out = Append(@, what)]

\* a stage's tool was invoked and ended
Ran(r, stage, code, ok) ==
    [r EXCEPT !.events = Append(@, stage), !.runs = Append(@, Run(stage, code, ok))]

\* every failure of a stage ends the process with status 1
PropagatedStatus_One(returncode) == 1

\* sys.exit(res.returncode)
PropagatedStatus(returncode) == returncode

\* shutil.rmtree(build_dir), which removes the directory or fails to
Rmtree(r, removed) ==
    [r EXCEPT !.events = Append(@, "rmtree"),
              !.build_dir = ~removed,
              !.cache = IF removed THEN NoFile ELSE @,
              !.cc_exists = IF removed THEN FALSE ELSE @]

\* cmake --preset ended with status 0: the build directory and its cache
Configured(r) == [r EXCEPT !.build_dir = TRUE, !.cache = FileAt(MaxTime)]

\* the file is taken to be there once cmake has ended with 0
compile_commands_exists_Assumed(r) == TRUE

\* lint.py main, step 3: compile_commands.exists(), looked at again after
\* cmake --preset
compile_commands_exists(r) == r.cc_exists

\* lint.py main, steps 2 and 3: the probe, then compile_commands.json is
\* configured into being when it is missing, with a single invocation
LintEnsureCompileCommands ==
    /\ script = "lint" /\ pc = "probe"
    /\ \E cmake_outcome \in LaunchOutcomes(os_name, cmake_present),
          other_present \in BOOLEAN :
       \E other_outcome \in OtherOutcomes(os_name, other_present) :
         IF LintProbeRaises(cmake_outcome, other_outcome) THEN Goto(Crashed(Here))
         ELSE LET probed == [Here EXCEPT !.tools =
                                LintProbeReport(os_name, cmake_outcome, other_outcome)]
              IN  IF cc_exists THEN Goto([probed EXCEPT !.pc = "tools"])
                  ELSE IF ~cmake_present /\ os_name # "nt" THEN Goto(Crashed(probed))
                  ELSE \E returncode \in {0} \cup FailCodes, generated \in BOOLEAN :
                         /\ ~cmake_present => returncode # 0 /\ ~generated
                         /\ LET ran == Ran(probed, "configure", returncode, returncode = 0)
                                made == [ran EXCEPT !.cc_exists = generated,
                                                    !.build_dir = @ \/ generated]
                            IN  IF returncode # 0
                                THEN Goto(Ended(Printing(made, "ERR configuration failed"),
                                                PropagatedStatus(returncode)))
                                ELSE IF ~compile_commands_exists(made)
                                THEN Goto(Ended(Printing(made, "ERR no compile_commands"), 1))
                                ELSE Goto([made EXCEPT !.pc = "tools"])

\* a search for a tool has returned: located or not
Looked(r, tool, path) ==
    [r EXCEPT !.searched = [t \in DOMAIN @ \cup {tool} |-> IF t = tool THEN path ELSE @[t]]]

\* lint.py main, steps 4 and 5: run-clang-tidy, then the fixer, which is
\* passed -fix at once under --force and after the confirmation otherwise
LintFindTools ==
    /\ script = "lint" /\ pc = "tools"
    /\ \E run_ct \in BOOLEAN, car \in BOOLEAN :
         LET runner == Looked(Here, "run_ct", run_ct)
             fixer == Looked(runner, "car", car)
         IN  IF ~run_ct THEN Goto(Ended(Printing(runner, "ERR no run-clang-tidy"), 1))
             ELSE IF ~args.fix THEN Goto([runner EXCEPT !.pc = "execute"])
             ELSE IF ~car THEN Goto(Ended(Printing(fixer, "ERR no fixer"), 1))
             ELSE IF ~args.force THEN Goto([fixer EXCEPT !.pc = "confirm"])
             ELSE Goto([fixer EXCEPT !.cmd_extras = Append(@, "-fix"), !.pc = "execute"])

\* what a user may type at the prompt before the line ends
Answers ==
    {<<>>, <<" ">>, <<"y">>, <<"Y">>, <<" ", "Y", "E", "S", " ">>, <<"y", "e", "s">>,
     <<"n">>, <<"N", "O", " ">>, <<"y", "e">>, <<"y", " ", "e", "s">>, <<"m">>}

\* the prompts one run shows at most
MaxAnswers == 2

\* str.lower() on the letters of the answers
str_lower(s) == [i \in 1..Len(s) |-> IF s[i] = "Y" THEN "y" ELSE Lower(s[i])]

\* the prompt reads [Y/n]: an empty answer proceeds
confirm_action_DefaultYes(typed) ==
    LET response == Strip(str_lower(typed))
    IN  IF response \in {<<>>, <<"y">>, <<"y", "e", "s">>} THEN "True"
        ELSE IF response \in {<<"n">>, <<"n", "o">>} THEN "False"
        ELSE "again"

\* confirm_action, one turn of its loop: what it returns, or that it asks again
confirm_action(typed) ==
    LET response == Strip(str_lower(typed))
    IN  IF response \in {<<"y">>, <<"y", "e", "s">>} THEN "True"
        ELSE IF response \in {<<>>, <<"n">>, <<"n", "o">>} THEN "False"
        ELSE "again"

\* lint.py main, step 5: one prompt of confirm_action and what main does with
\* its answer; input() raises EOFError when the input has ended
LintConfirm ==
    /\ script = "lint" /\ pc = "confirm"
    /\ \/ Goto(Crashed(Here))
       \/ \E typed \in Answers :
            LET asked == [Here EXCEPT !.responses = Append(@, typed)]
                returned == confirm_action(typed)
            IN  IF returned = "True"
                THEN Goto([asked EXCEPT !.cmd_extras = Append(@, "-fix"),
                                        !.pc = "execute"])
                ELSE IF returned = "False"
                THEN Goto(Ended(Printing(asked, "Aborted"), 0))
                ELSE Len(responses) + 1 < MaxAnswers /\ Goto(asked)

\* lint.py main, step 8: the table, the summary and the exit, streamed being
\* what run_lint_streaming did with the lines and rows the table
LintSummary(r, lines, returncode, streamed, rows) ==
    LET success == LintSuccess(returncode, streamed.issues)
        ran == [Ran(r, "lint", returncode, success) EXCEPT
                   !.transcript = lines, !.issues = streamed.issues,
                   !.parsed = streamed.parsed, !.printed = streamed.printed,
                   !.table = rows]
        shown == IF streamed.issues = <<>> THEN ran
                 ELSE Printing(ran, "ISSUE BREAKDOWN")
    IN  IF success THEN Ended(Printing(shown, "SUMMARY SUCCESS"), 0)
        ELSE Ended(Printing(shown, "SUMMARY FAILED"), 1)

\* lint.py main, steps 7 and 8: the lint stage and the verdict
LintExecute ==
    /\ script = "lint" /\ pc = "execute"
    /\ \E returncode \in {0} \cup FailCodes, lines \in LintTranscripts :
         Goto(LintSummary(Here, lines, returncode, run_lint_streaming[lines][args.verbose],
                          print_issue_summary_table[lines]))

\* the build directory is removed whenever it is there
should_clean_Always(clean, dir_exists) == dir_exists

\* build.py main, step 4: if args.clean and build_dir.exists()
should_clean(clean, dir_exists) == clean /\ dir_exists

\* build.py main, steps 2 to 4: the probe, the cmake check, --clean
BuildProbe ==
    /\ script = "build" /\ pc = "probe"
    /\ \E cmake_outcome \in LaunchOutcomes(os_name, cmake_present),
          other_present \in BOOLEAN, removed \in BOOLEAN :
       \E other_outcome \in OtherOutcomes(os_name, other_present) :
         LET probed == [Here EXCEPT !.tools =
                           BuildProbeReport(os_name, cmake_outcome, other_outcome)]
         IN  IF probed.tools["cmake"] = "Not found"
             THEN Goto(Ended(Printing(probed, "ERR cmake not found"), 1))
             ELSE IF should_clean(args.clean, build_dir)
             THEN Goto([Rmtree(probed, removed) EXCEPT !.pc = "configure"])
             ELSE Goto([probed EXCEPT !.pc = "configure"])

\* a failed configure is not tried again
ConfigureCodes_NoRetry(first, second) == <<first>>

\* the exit codes of the configure invocations build.py main makes
ConfigureCodes(first, second) == IF first = 0 THEN <<first>> ELSE <<first, second>>

\* the flag is not looked at
should_configure_StaleOnly(reconfigure, is_stale) == is_stale

\* build.py main: should_configure = args.reconfigure or is_cache_stale(...)
should_configure(reconfigure, is_stale) == reconfigure \/ is_stale

\* build.py main, step 5: configure when asked to or when the cache is
\* stale; after a failure the build directory is removed and configure is
\* run once more.  run_command launches cmake without a shell.
BuildConfigure ==
    /\ script = "build" /\ pc = "configure"
    /\ LET decided == [Here EXCEPT !.stale =
                          IF args.reconfigure THEN @
                          ELSE Returned(is_cache_stale(build_dir, cache, configs))]
           wanted == should_configure(args.reconfigure, decided.stale.value)
       IN  IF ~wanted THEN Goto([decided EXCEPT !.pc = "build"])
           ELSE IF ~cmake_present THEN Goto(Crashed(decided))
           ELSE \E first \in {0} \cup FailCodes, second \in {0} \cup FailCodes,
                   removed \in BOOLEAN :
                  LET codes == ConfigureCodes(first, second)
                      once == Ran(decided, "configure", codes[1], codes[1] = 0)
                      healed == IF build_dir THEN Rmtree(Printing(once, "QUIRK retry"), removed)
                                ELSE Printing(once, "QUIRK retry")
                      last == codes[Len(codes)]
                      twice == IF Len(codes) = 1 THEN once
                               ELSE Ran(healed, "configure", last, last = 0)
                  IN  IF last = 0 THEN Goto([Configured(twice) EXCEPT !.pc = "build"])
                      ELSE IF Len(codes) = 1 THEN Goto([twice EXCEPT !.pc = "build"])
                      ELSE Goto(Ended(Printing(twice, "SUMMARY FAILED"),
                                      PropagatedStatus(last)))

\* a failed build goes on to the tests
AfterBuild_GoesOn(r, returncode) == [r EXCEPT !.pc = "test"]

\* build.py main after the build tool returned
AfterBuild(r, returncode) ==
    IF returncode # 0
    THEN Ended(Printing(r, "SUMMARY FAILED"), PropagatedStatus(returncode))
    ELSE [r EXCEPT !.pc = "test"]

\* build.py main, step 6: the build stage
BuildBuild ==
    /\ script = "build" /\ pc = "build"
    /\ IF ~cmake_present THEN Goto(Crashed(Here))
       ELSE \E returncode \in {0} \cup FailCodes :
              Goto(AfterBuild(Ran(Here, "build", returncode, returncode = 0), returncode))

\* build.py main, step 7: the summary and the exit, filtered being what
\* run_command did with the lines
TestSummary(r, lines, returncode, filtered) ==
    LET success == TestSuccess(returncode)
        ran == [Ran(r, "test", returncode, success) EXCEPT
                   !.transcript = lines, !.printed = filtered.printed,
                   !.last_was_failed = filtered.last_was_failed]
    IN  IF success
        THEN Ended(Printing(Printing(ran, "SUMMARY SUCCESS"), "PIPELINE SUCCESSFUL"), 0)
        ELSE Ended(Printing(ran, "SUMMARY FAILED"), 1)

\* build.py main, step 7: the test stage, unless skipped, and the verdict
BuildTest ==
    /\ script = "build" /\ pc = "test"
    /\ IF args.skip_tests
       THEN Goto(Ended(Printing(Printing(Here, "SUMMARY SUCCESS"), "PIPELINE SUCCESSFUL"), 0))
       ELSE \E returncode \in {0} \cup FailCodes,
               lines \in TestTranscripts :
              Goto(TestSummary(Here, lines, returncode, run_command[lines]))

Next ==
    \/ LintDetectToolset \/ LintBootEnter \/ LintRunVswhere \/ LintRunScript
    \/ LintEnsureCompileCommands \/ LintFindTools \/ LintConfirm \/ LintExecute
    \/ BuildBootEnter \/ BuildRunVswhere \/ BuildRunScript
    \/ BuildProbe \/ BuildConfigure \/ BuildBuild \/ BuildTest

Spec == Init /\ [][Next]_vars

----------------------------------------------------------------------------
(* The loops over the runners' output, a line at a time *)

\* run_command with quiet_tests, before the first line of ctest's output
InitTestStream ==
    /\ pc = "test-stream"
    /\ files = NoFiles /\ file_idx = 0 /\ presets_map = EmptyMap
    /\ load_raised = FALSE /\ preset_name = "" /\ resolved = NotResolved
    /\ MainIdle

\* a pass of run_command's loop, for each line and each last_was_failed
\* before it
TestPasses ==
    [line \in TestLines |-> [flag \in BOOLEAN |-> TestLineStep(line, flag)]]

\* one pass of run_command's loop: transcript is the line read, printed
\* what the pass printed
TestReadLine ==
    /\ pc = "test-stream"
    /\ \E line \in TestLines :
         LET step == TestPasses[line][last_was_failed]
         IN  /\ transcript' = <<line>>
             /\ printed' = step.printed
             /\ last_was_failed' = step.last_was_failed
    /\ UNCHANGED <<pc, loadvars, mainvars, captured, cmake_present, tools, cache,
                   configs, stale, runs, out, issues, parsed, table, children,
                   searched, cmd_extras, responses>>

NextTestStream == TestReadLine

SpecTestStream == InitTestStream /\ [][NextTestStream]_vars

\* the most issues the parser retains before the loop is left
MaxIssues == 2

\* run_lint_streaming, before the first line of clang-tidy's output
InitLintStream ==
    /\ pc = "lint-stream"
    /\ files = NoFiles /\ file_idx = 0 /\ presets_map = EmptyMap
    /\ load_raised = FALSE /\ preset_name = "" /\ resolved = NotResolved
    /\ script = "none" /\ os_name = "posix" /\ environ = EmptyEnv
    /\ args \in {[NoArgs EXCEPT !.verbose = v] : v \in BOOLEAN}
    /\ msvc_toolset = None /\ env = EmptyEnv /\ env_set = FALSE
    /\ boot_exit = "pending" /\ vcvars_arg = None
    /\ build_dir = FALSE /\ cc_exists = FALSE
    /\ events = <<>> /\ exit_code = Running
    /\ StageIdle

\* a pass of run_lint_streaming's loop, for each line, in the verbose mode
\* and out of it
LintPasses ==
    [line \in LintLines |-> [verbose \in BOOLEAN |-> LintLineStep(line, verbose)]]

\* one pass of run_lint_streaming's loop: transcript is the line read,
\* printed what the pass printed
LintReadLine ==
    /\ pc = "lint-stream" /\ Len(issues) < MaxIssues
    /\ \E line \in LintLines :
         LET step == LintPasses[line][args.verbose]
         IN  /\ transcript' = <<line>>
             /\ parsed' = step.parsed
             /\ issues' = issues \o step.issues
             /\ printed' = step.printed
    /\ UNCHANGED <<pc, loadvars, mainvars, captured, cmake_present, tools, cache,
                   configs, stale, runs, out, last_was_failed, table, children,
                   searched, cmd_extras, responses>>

NextLintStream == LintReadLine

SpecLintStream == InitLintStream /\ [][NextLintStream]_vars

\* the checks and the most issues print_issue_summary_table is given
CheckNames == {"A", "B", "C"}
MaxRetained == 4

\* an issue of the check named
IssueOfCheck(name) ==
    [file |-> <<"f">>, line |-> <<"1", "2">>, col |-> <<"5">>, severity |-> "warning",
     message |-> <<"m">>, check |-> <<name>>]

IssueLists ==
    UNION {[1..n -> {IssueOfCheck(name) : name \in CheckNames}] : n \in 0..MaxRetained}

\* lint.py main with the issues run_lint_streaming returned
InitTable ==
    /\ pc = "summary"
    /\ files = NoFiles /\ file_idx = 0 /\ presets_map = EmptyMap
    /\ load_raised = FALSE /\ preset_name = "" /\ resolved = NotResolved
    /\ script = "none" /\ os_name = "posix" /\ environ = EmptyEnv /\ args = NoArgs
    /\ msvc_toolset = None /\ env = EmptyEnv /\ env_set = FALSE
    /\ boot_exit = "pending" /\ vcvars_arg = None
    /\ build_dir = FALSE /\ cc_exists = FALSE
    /\ events = <<>> /\ exit_code = Running
    /\ captured = <<>> /\ cmake_present = TRUE /\ tools = NoTools
    /\ cache = NoFile /\ configs = [c \in ConfigNames |-> NoFile]
    /\ stale = NoVerdict /\ runs = <<>> /\ out = <<>>
    /\ transcript = <<>> /\ printed = <<>> /\ StreamIdle
    /\ issues \in IssueLists

\* the call print_issue_summary_table(issues)
PrintTable ==
    /\ pc = "summary"
    /\ table' = IssueTable(issues)
    /\ out' = IF issues = <<>> THEN out ELSE Append(out, "ISSUE BREAKDOWN")
    /\ pc' = "summarized"
    /\ UNCHANGED <<loadvars, mainvars, captured, cmake_present, tools, cache, configs,
                   stale, runs, transcript, printed, issues, last_was_failed, parsed,
                   children, searched, cmd_extras, responses>>

NextTable == PrintTable

SpecTable == InitTable /\ [][NextTable]_vars

----------------------------------------------------------------------------
(* parse_line on a line and on the same line in escape sequences and white
   space *)

\* the lines without the line feed: those of the runner, and before and
\* after them escape characters and pieces of sequences that are not whole
LineBodies ==
    {SubSeq(LintLineOf(c), 1, Len(LintLineOf(c)) - 1) :
        c \in {d \in LintShapes : d.wrap = "bare"}}
    \cup {SubSeq(PlainLineOf(c), 1, Len(PlainLineOf(c)) - 1) :
            c \in {d \in PlainShapes : d.text /\ ~d.generated /\ ~d.nonuser /\ ~d.enabled}}

StrayBefore == {<<>>, <<Esc>>, <<Esc, "[">>, <<Esc, "ESC[0m", "[", "0">>}

StrayAfter == {<<>>, <<Esc>>, <<Esc, "[">>, <<Esc, "[", "0", " ">>}

BareTexts == {b \o body \o a : b \in StrayBefore, body \in LineBodies, a \in StrayAfter}

\* what a line is wrapped in: whole escape sequences and white space
WrapsBefore == {<<>>, <<" ">>, <<"ESC[1m">>, <<" ", "ESC[1m", " ">>}

WrapsAfter == {<<>>, <<" ">>, <<"ESC[0m">>, <<" ", "ESC[0m", " ">>}

\* nothing has been read
InitAnsi ==
    /\ pc = "ansi"
    /\ files = NoFiles /\ file_idx = 0 /\ presets_map = EmptyMap
    /\ load_raised = FALSE /\ preset_name = "" /\ resolved = NotResolved
    /\ MainIdle

\* parser.parse_line(line) of a bare line and of the line wrapped: transcript
\* is the two lines, printed what strip_ansi made of them and parsed the
\* issues returned
ParseBoth ==
    /\ pc = "ansi"
    /\ \E text \in BareTexts, before \in WrapsBefore, after \in WrapsAfter :
         LET bare == text \o <<"\n">>
             wrapped == before \o text \o after \o <<"\n">>
         IN  /\ transcript' = <<bare, wrapped>>
             /\ printed' = <<strip_ansi(bare), strip_ansi(wrapped)>>
             /\ parsed' = <<parse_line(bare).issue, parse_line(wrapped).issue>>
    /\ pc' = "stripped"
    /\ UNCHANGED <<loadvars, mainvars, captured, cmake_present, tools, cache, configs,
                   stale, runs, out, issues, last_was_failed, table,
                   children, searched, cmd_extras, responses>>

\* parser.strip_ansi of what it returned
StripAgain ==
    /\ pc = "stripped"
    /\ printed' = <<strip_ansi(printed[1]), strip_ansi(printed[2])>>
    /\ pc' = "stripped-again"
    /\ UNCHANGED <<loadvars, mainvars, captured, cmake_present, tools, cache, configs,
                   stale, runs, out, transcript, issues, last_was_failed, parsed, table,
                   children, searched, cmd_extras, responses>>

NextAnsi == ParseBoth \/ StripAgain

SpecAnsi == InitAnsi /\ [][NextAnsi]_vars

----------------------------------------------------------------------------
(* The stages with their child processes: main from the probe on, a step
   for each thing main does with a child and a step for each thing a child
   does to main *)

\* a child process as it is spawned: piped when main reads its output, its
\* state "running", then "closed" when it has closed its output and
\* "exited" with a code; eof, waited and read say that main has come to the
\* end of its output, has waited for it and has read its exit status
Child(stage, piped) ==
    [stage |-> stage, piped |-> piped, state |-> "running", code |-> Running,
     eof |-> FALSE, waited |-> FALSE, read |-> FALSE]

\* subprocess.Popen(cmd, ...), in run_command, in run_lint_streaming and
\* inside subprocess.run
Spawned(r, stage, piped) == [r EXCEPT !.children = Append(@, Child(stage, piped))]

\* the wait does not block
WaitReturns_Poll(child) == TRUE

\* process.wait(), and the wait inside subprocess.run: it returns when the
\* child has exited
WaitReturns(child) == child.state = "exited"

\* "for line in process.stdout" ends when the child has closed its output
EndOfStream(child) == child.state \in {"closed", "exited"}

\* the child main is busy with: the one spawned last
LastChild == children[Len(children)]

SawEof(r) == [r EXCEPT !.children[Len(r.children)].eof = TRUE]
Waited(r) == [r EXCEPT !.children[Len(r.children)].waited = TRUE]
ReadStatus(r) == [r EXCEPT !.children[Len(r.children)].read = TRUE]

\* the most lines main reads from one child
MaxRead == 2

\* the lines a test runner and a lint runner write
TestOutput == {FailedLine, DetailLine}
LintOutput == {LintLine("error"), PlainLine}

\* a pass of each loop for each of these lines
TestOutputPasses ==
    [line \in TestOutput |-> [flag \in BOOLEAN |-> TestLineStep(line, flag)]]

LintOutputPasses ==
    [line \in LintOutput |-> [verbose \in BOOLEAN |-> LintLineStep(line, verbose)]]

\* the state once get_msvc_environment has returned the ambient environment:
\* not on Windows, or with a compiler environment active and no toolset asked
\* for
InitChildren ==
    /\ files = NoFiles /\ file_idx = 0 /\ presets_map = EmptyMap
    /\ load_raised = FALSE /\ preset_name = "" /\ resolved = NotResolved
    /\ script \in {"lint", "build"}
    /\ pc = "probe"
    /\ os_name \in {"nt", "posix"}
    /\ environ \in {e \in PipelineEnvs : os_name = "nt" <=> K_VCINSTALLDIR \in DOMAIN e}
    /\ args \in {a \in ArgsOf(script) : a.explicit_toolset = None}
    /\ msvc_toolset = None
    /\ env = environ /\ env_set = TRUE
    /\ boot_exit = (IF os_name = "nt" THEN "already-active" ELSE "not-windows")
    /\ vcvars_arg = None
    /\ build_dir \in BOOLEAN
    /\ cc_exists \in (IF script = "lint" /\ build_dir THEN BOOLEAN ELSE {FALSE})
    /\ events = <<>> /\ exit_code = Running
    /\ captured = <<>> /\ cmake_present \in BOOLEAN /\ tools = NoTools
    /\ cache \in (IF script = "build" /\ build_dir THEN Files ELSE {NoFile})
    /\ configs = PipelineConfigs
    /\ stale = NoVerdict /\ runs = <<>> /\ out = <<>>
    /\ transcript = <<>> /\ printed = <<>> /\ issues = <<>> /\ StreamIdle

\* a child closes its output and goes on running
ChildCloses ==
    /\ \E i \in 1..Len(children) :
         /\ children[i].piped /\ children[i].state = "running"
         /\ children' = [children EXCEPT ![i].state = "closed"]
    /\ UNCHANGED <<pc, loadvars, mainvars, captured, cmake_present, tools, cache, configs,
                   stale, runs, out, transcript, printed, issues, last_was_failed,
                   parsed, table, searched, cmd_extras, responses>>

\* a child exits; cmake started through the shell without a cmake to start
\* exits with the shell's nonzero status
ChildExits ==
    /\ \E i \in 1..Len(children), returncode \in {0} \cup FailCodes :
         /\ children[i].state # "exited"
         /\ (children[i].stage = "configure" /\ ~cmake_present) => returncode # 0
         /\ children' = [children EXCEPT ![i].state = "exited", ![i].code = returncode]
    /\ UNCHANGED <<pc, loadvars, mainvars, captured, cmake_present, tools, cache, configs,
                   stale, runs, out, transcript, printed, issues, last_was_failed,
                   parsed, table, searched, cmd_extras, responses>>

\* build.py main, step 5 up to the first cmake --preset: run_command starts
\* it with subprocess.run
ConfigureStart ==
    /\ script = "build" /\ pc = "configure"
    /\ LET decided == [Here EXCEPT !.stale =
                          IF args.reconfigure THEN @
                          ELSE Returned(is_cache_stale(build_dir, cache, configs))]
           wanted == should_configure(args.reconfigure, decided.stale.value)
       IN  IF ~wanted THEN Goto([decided EXCEPT !.pc = "build"])
           ELSE IF ~cmake_present THEN Goto(Crashed(decided))
           ELSE Goto([Spawned(decided, "configure", FALSE) EXCEPT !.pc = "wait"])

\* lint.py main, steps 2 and 3 up to cmake --preset: subprocess.run starts it
LintConfigureStart ==
    /\ script = "lint" /\ pc = "probe"
    /\ \E cmake_outcome \in LaunchOutcomes(os_name, cmake_present),
          other_present \in BOOLEAN :
       \E other_outcome \in OtherOutcomes(os_name, other_present) :
         IF LintProbeRaises(cmake_outcome, other_outcome) THEN Goto(Crashed(Here))
         ELSE LET probed == [Here EXCEPT !.tools =
                                LintProbeReport(os_name, cmake_outcome, other_outcome)]
              IN  IF cc_exists THEN Goto([probed EXCEPT !.pc = "tools"])
                  ELSE IF ~cmake_present /\ os_name # "nt" THEN Goto(Crashed(probed))
                  ELSE Goto([Spawned(probed, "configure", FALSE) EXCEPT !.pc = "wait"])

\* build.py main, step 6 up to cmake --build
BuildStart ==
    /\ script = "build" /\ pc = "build"
    /\ IF ~cmake_present THEN Goto(Crashed(Here))
       ELSE Goto([Spawned(Here, "build", FALSE) EXCEPT !.pc = "wait"])

\* build.py main, step 7 up to ctest: run_command starts it with
\* subprocess.Popen and reads its output
TestStart ==
    /\ script = "build" /\ pc = "test"
    /\ IF args.skip_tests
       THEN Goto(Ended(Printing(Printing(Here, "SUMMARY SUCCESS"), "PIPELINE SUCCESSFUL"), 0))
       ELSE Goto([Spawned(Here, "test", TRUE) EXCEPT !.pc = "stream"])

\* lint.py main, step 7 up to the runner: run_lint_streaming starts it with
\* subprocess.Popen and reads its output
LintStart ==
    /\ script = "lint" /\ pc = "execute"
    /\ Goto([Spawned(Here, "lint", TRUE) EXCEPT !.pc = "stream"])

\* one pass of the loop over process.stdout, in run_command and in
\* run_lint_streaming: the child has written a line
ReadLine ==
    /\ pc = "stream" /\ LastChild.state = "running" /\ Len(transcript) < MaxRead
    /\ IF script = "build"
       THEN \E line \in TestOutput :
              LET step == TestOutputPasses[line][last_was_failed]
              IN  Goto([Here EXCEPT !.transcript = Append(@, line),
                                    !.printed = @ \o step.printed,
                                    !.last_was_failed = step.last_was_failed])
       ELSE \E line \in LintOutput :
              LET step == LintOutputPasses[line][args.verbose]
              IN  Goto([Here EXCEPT !.transcript = Append(@, line),
                                    !.parsed = step.parsed,
                                    !.issues = @ \o step.issues,
                                    !.printed = @ \o step.printed])

\* the loop over process.stdout ends
StreamEnds ==
    /\ pc = "stream" /\ EndOfStream(LastChild)
    /\ Goto([SawEof(Here) EXCEPT !.pc = "wait"])

\* process.wait() returns, in run_command, in run_lint_streaming and inside
\* subprocess.run
Wait ==
    /\ pc = "wait" /\ WaitReturns(LastChild)
    /\ Goto([Waited(Here) EXCEPT !.pc = "status"])

\* every failed configure is tried again
IsFirstConfigure_Always(done) == TRUE

\* the cmake --preset that failed is the one of line 306, not the retry of
\* line 315: no stage has returned before it
IsFirstConfigure(done) == done = <<>>

\* build.py main, step 5 after a cmake --preset: res.returncode is read;
\* after the first failure the build directory is removed and cmake is
\* started once more
ConfigureStatus ==
    /\ script = "build" /\ pc = "status" /\ LastChild.stage = "configure"
    /\ \E removed \in BOOLEAN :
         LET returncode == LastChild.code
             once == Ran(ReadStatus(Here), "configure", returncode, returncode = 0)
             healed == IF build_dir THEN Rmtree(Printing(once, "QUIRK retry"), removed)
                       ELSE Printing(once, "QUIRK retry")
         IN  IF returncode = 0 THEN Goto([Configured(once) EXCEPT !.pc = "build"])
             ELSE IF IsFirstConfigure(runs)
             THEN Goto([Spawned(healed, "configure", FALSE) EXCEPT !.pc = "wait"])
             ELSE Goto(Ended(Printing(once, "SUMMARY FAILED"), PropagatedStatus(returncode)))

\* lint.py main, step 3 after cmake --preset: res.returncode is read, then
\* compile_commands.json is looked for
LintConfigureStatus ==
    /\ script = "lint" /\ pc = "status" /\ LastChild.stage = "configure"
    /\ \E generated \in BOOLEAN :
         /\ ~cmake_present => ~generated
         /\ LET returncode == LastChild.code
                ran == Ran(ReadStatus(Here), "configure", returncode, returncode = 0)
                made == [ran EXCEPT !.cc_exists = generated, !.build_dir = @ \/ generated]
            IN  IF returncode # 0
                THEN Goto(Ended(Printing(made, "ERR configuration failed"),
                                PropagatedStatus(returncode)))
                ELSE IF ~compile_commands_exists(made)
                THEN Goto(Ended(Printing(made, "ERR no compile_commands"), 1))
                ELSE Goto([made EXCEPT !.pc = "tools"])

\* build.py main, step 6 after cmake --build: res.returncode is read
BuildStatus ==
    /\ script = "build" /\ pc = "status" /\ LastChild.stage = "build"
    /\ Goto(AfterBuild(Ran(ReadStatus(Here), "build", LastChild.code, LastChild.code = 0),
                       LastChild.code))

\* build.py main, step 7 after ctest: process.returncode is read
TestStatus ==
    /\ script = "build" /\ pc = "status" /\ LastChild.stage = "test"
    /\ Goto(TestSummary(ReadStatus(Here), transcript, LastChild.code,
                        Pass(printed, last_was_failed)))

\* lint.py main, steps 7 and 8 after the runner: process.returncode is read
LintStatus ==
    /\ script = "lint" /\ pc = "status" /\ LastChild.stage = "lint"
    /\ Goto(LintSummary(ReadStatus(Here), transcript, LastChild.code,
                        Streamed(parsed, issues, printed), IssueTable(issues)))

\* what main does
Controller ==
    \/ BuildProbe \/ ConfigureStart \/ ConfigureStatus \/ BuildStart \/ BuildStatus
    \/ TestStart \/ TestStatus
    \/ LintConfigureStart \/ LintConfigureStatus \/ LintFindTools \/ LintConfirm
    \/ LintStart \/ LintStatus
    \/ ReadLine \/ StreamEnds \/ Wait

NextChildren == Controller \/ ChildCloses \/ ChildExits

SpecChildren == InitChildren /\ [][NextChildren]_vars

\* main runs on whenever it can; a child need not close its output or exit
SpecChildrenFair == SpecChildren /\ WF_vars(Controller)

----------------------------------------------------------------------------
(* What the bootstrap is checked against *)

\* a compiler environment is active in the ambient environment
AlreadyActive == K_VCINSTALLDIR \in DOMAIN environ

\* the version the bootstrap was asked for
ToolsetRequested == Truthy(msvc_toolset)

\* the bootstrap has ended, by returning or by ending the process
BootEnded == boot_exit # "pending"

\* the bootstrap returned before it looked for anything
ShortCircuited == boot_exit \in {"not-windows", "already-active"}

NoStageStarted == Range(events) \cap Stages = {}

\* C8: on a non-Windows platform the bootstrap returns the ambient
\* environment, and so it does on Windows when VCINSTALLDIR is set, without
\* looking for or running anything, unless a toolset version was asked for:
\* then it goes on to look for the locator.
C8_ShortCircuit ==
    /\ pc \in {"vswhere", "script"} =>
         os_name = "nt" /\ (~AlreadyActive \/ ToolsetRequested)
    /\ BootEnded =>
         /\ os_name # "nt" =>
              /\ boot_exit = "not-windows"
              /\ env_set /\ env = environ
         /\ (os_name = "nt" /\ AlreadyActive /\ ~ToolsetRequested) =>
              /\ boot_exit = "already-active"
              /\ env_set /\ env = environ
         /\ ShortCircuited => "vswhere" \notin Range(events) /\ "vcvars" \notin Range(events)
         /\ (os_name = "nt" /\ AlreadyActive /\ ToolsetRequested) => ~ShortCircuited

\* C8's case: Windows, VCINSTALLDIR set, a version asked for, and the
\* script's environment loaded over the ambient one
C8_Witness ==
    /\ os_name = "nt" /\ AlreadyActive /\ ToolsetRequested
    /\ boot_exit = "loaded" /\ env # environ
    /\ vcvars_arg = msvc_toolset

\* the failures the bootstrap meets before or after the script ran that are
\* not the script's own failure
SoftFailReasons == {"no-locator", "locator-failed", "no-install", "no-vcvars",
                    "no-separator"}

C10_HardFail ==
    boot_exit = "script-failed" =>
        /\ pc = "exited" /\ exit_code \notin {0, Running}
        /\ ~env_set /\ NoStageStarted

\* C10's case: the lint pipeline's script ran and failed
C10_Witness ==
    /\ script = "lint" /\ boot_exit = "script-failed"
    /\ events = <<"vswhere", "vcvars">> /\ pc = "exited"

----------------------------------------------------------------------------
(* What the stages are checked against *)

Last(seq) == seq[Len(seq)]

\* the invocations of one stage, in order
RunsOf(stage) == SelectSeq(runs, LAMBDA r : r.stage = stage)

\* the last stage that was attempted did not succeed
LastStageFailed == runs # <<>> /\ ~Last(runs).ok

\* main itself found a failure, or an exception ended it
ControllerErrors ==
    {"ERR cmake not found", "ERR configuration failed", "ERR no compile_commands",
     "ERR no run-clang-tidy", "ERR no fixer", "Traceback"}

\* the bootstrap ended the process
BootstrapEnded == pc = "exited" /\ ~env_set

ControllerFailed == BootstrapEnded \/ (out # <<>> /\ Last(out) \in ControllerErrors)

\* C13 as stated: in both pipelines a first configure that fails is
\* followed by a second one.
C13_AsStated ==
    LET cfg == RunsOf("configure")
    IN  /\ Len(cfg) <= 2
        /\ (cfg # <<>> /\ cfg[1].code # 0) => Len(cfg) = 2
        /\ (cfg # <<>> /\ Last(cfg).code # 0) =>
             pc = "exited" /\ exit_code = Last(cfg).code /\ runs = cfg

\* what the build pipeline's runs and events say of its configure stage
BuildAutoHeal ==
    LET cfg == RunsOf("configure")
        at == {i \in 1..Len(events) : events[i] = "configure"}
        first == CHOOSE i \in at : \A j \in at : i <= j
    IN  /\ Len(cfg) <= 2
        /\ (cfg # <<>> /\ cfg[1].code # 0) => Len(cfg) = 2
        /\ Len(cfg) = 2 =>
             /\ cfg[1].code # 0
             /\ \/ events[first + 1] = "configure"
                \/ events[first + 1] = "rmtree" /\ events[first + 2] = "configure"
        /\ (cfg # <<>> /\ Last(cfg).code # 0) =>
             pc = "exited" /\ exit_code = Last(cfg).code /\ runs = cfg
        /\ (cfg # <<>> /\ Last(cfg).code = 0) =>
             /\ pc \in {"build", "test", "exited"}
             /\ pc = "exited" => Len(RunsOf("build")) = 1

\* the build pipeline's configure step removes the build directory between
\* its two invocations whenever the directory is there
BuildAutoHealRemoves ==
    (script = "build" /\ pc = "configure" /\ Len(runs') = Len(runs) + 2 /\ build_dir)
        => SubSeq(events', Len(events) + 1, Len(events')) =
              <<"configure", "rmtree", "configure">>

\* what the lint pipeline's runs say of its configure stage
LintConfiguresOnce ==
    LET cfg == RunsOf("configure")
    IN  /\ Len(cfg) <= 1
        /\ (cfg # <<>> /\ cfg[1].code # 0) =>
             pc = "exited" /\ exit_code = cfg[1].code /\ runs = cfg

\* C13: in the build pipeline a first configure that exits nonzero is
\* followed, after the build directory is removed if it is there, by exactly
\* one more; a second nonzero exit ends the run with that code and no later
\* stage, a zero exit lets the build stage run.  The lint pipeline invokes
\* configure once: a nonzero exit ends the run with that code.
C13_AutoHeal ==
    /\ [](IF script = "build" THEN BuildAutoHeal
          ELSE (script = "lint" => LintConfiguresOnce))
    /\ [][BuildAutoHealRemoves]_vars

\* C13's case: configure fails, the directory is removed, configure
\* succeeds and the build stage runs
C13_Witness ==
    /\ script = "build" /\ Len(runs) = 3
    /\ runs[1].stage = "configure" /\ runs[1].code # 0
    /\ runs[2] = Run("configure", 0, TRUE)
    /\ runs[3].stage = "build"
    /\ \E i \in 1..(Len(events) - 2) :
         events[i] = "configure" /\ events[i + 1] = "rmtree" /\ events[i + 2] = "configure"

\* C14: the build tool is invoked at most once, straight after a configure
\* that exited with 0 or with no configure before it; when it exits nonzero
\* the run is over with a failure summary and a nonzero status, and no test
\* stage is started.
C14_BuildStage ==
    LET at == {i \in 1..Len(runs) : runs[i].stage = "build"}
    IN  /\ Cardinality(at) <= 1
        /\ \A i \in at :
             /\ script = "build"
             /\ i = 1 \/ (runs[i - 1].stage = "configure" /\ runs[i - 1].code = 0)
             /\ runs[i].code # 0 =>
                  /\ pc = "exited" /\ exit_code \notin {0, Running}
                  /\ i = Len(runs) /\ "test" \notin Range(events)
                  /\ Last(out) = "SUMMARY FAILED"

\* C14's case: configure is skipped, the build fails, tests were asked for
C14_Witness ==
    /\ script = "build" /\ ~args.skip_tests
    /\ runs = <<Run("build", 2, FALSE)>>
    /\ pc = "exited" /\ exit_code = 2

\* the number of lines of the lint transcript the pattern finds an error or
\* a warning in
ErrorsAndWarnings ==
    Cardinality({i \in 1..Len(transcript) :
                    transcript[i] \in {LintLine("error"), LintLine("warning")}})

\* C15: the lint stage is reported successful exactly when the runner's
\* exit code is 0 and no issue was retained; otherwise the summary is a
\* failure and the process ends with a nonzero status.
C15_LintVerdict ==
    \A i \in 1..Len(runs) : runs[i].stage = "lint" =>
        /\ i = Len(runs) /\ pc = "exited"
        /\ Len(issues) = ErrorsAndWarnings
        /\ runs[i].ok <=> (runs[i].code = 0 /\ Len(issues) = 0)
        /\ runs[i].ok <=> Last(out) = "SUMMARY SUCCESS"
        /\ ~runs[i].ok <=> Last(out) = "SUMMARY FAILED"
        /\ runs[i].ok <=> exit_code = 0

\* C15's case: the runner exits with 0 and a warning was retained
C15_Witness ==
    /\ script = "lint" /\ runs # <<>> /\ Last(runs) = Run("lint", 0, FALSE)
    /\ transcript = <<LintLine("warning"), LintLine("note")>>
    /\ Len(issues) = 1 /\ exit_code = 1

\* C16: the test stage is reported successful exactly when the runner's
\* exit code is 0, whatever its transcript holds and whatever was printed
\* of it.
C16_TestVerdict ==
    \A i \in 1..Len(runs) : runs[i].stage = "test" =>
        /\ i = Len(runs) /\ pc = "exited"
        /\ runs[i].ok <=> runs[i].code = 0
        /\ runs[i].ok <=> "SUMMARY SUCCESS" \in Range(out)
        /\ ~runs[i].ok <=> Last(out) = "SUMMARY FAILED"
        /\ runs[i].ok <=> exit_code = 0

\* C16's case: a failed status line is printed and the runner exits with 0
C16_Witness ==
    /\ script = "build" /\ runs # <<>> /\ Last(runs) = Run("test", 0, TRUE)
    /\ FailedLine \in Range(transcript) /\ FailedLine \in Range(printed)
    /\ exit_code = 0

\* C17 as stated: the process ends with a nonzero status exactly when the
\* last stage attempted did not succeed.
C17_AsStated == pc = "exited" => (exit_code # 0 <=> LastStageFailed)

\* C17: the process ends with a nonzero status exactly when the last stage
\* attempted did not succeed or the controller itself failed (the bootstrap
\* ended the process, cmake was reported missing, compile_commands.json was
\* not generated, the linter or the fixer was not found, an exception ended
\* main); a stage never attempted does not count.
C17_Verdict ==
    pc = "exited" => (exit_code # 0 <=> (LastStageFailed \/ ControllerFailed))

\* C17's case: tests are skipped and the run ends with 0 after the build
C17_Witness ==
    /\ script = "build" /\ args.skip_tests /\ pc = "exited" /\ exit_code = 0
    /\ runs # <<>> /\ Last(runs).stage = "build" /\ "test" \notin Range(events)

\* the process was ended by the failure of the last stage
EndedByStage == pc = "exited" /\ LastStageFailed /\ Last(out) # "Traceback"

\* C18 as stated: a stage that exits with a nonzero code c ends the run with
\* status c.
C18_AsStated ==
    (EndedByStage /\ Last(runs).code # 0) => exit_code = Last(runs).code

\* C18: a configure (the last one invoked) or a build that exits with a
\* nonzero code c ends the run with status c; a test or lint stage that did
\* not succeed ends the run with status 1, whatever its exit code.
C18_ExitCodes ==
    EndedByStage =>
        IF Last(runs).stage \in {"configure", "build"}
        THEN exit_code = Last(runs).code
        ELSE exit_code = 1

\* C18's case: the test runner exits with 2 and the run ends with 1
C18_Witness ==
    /\ pc = "exited" /\ runs # <<>> /\ Last(runs) = Run("test", 2, FALSE)
    /\ exit_code = 1
    /\ \E i \in 1..Len(runs) : runs[i] = Run("configure", 2, FALSE)

\* the probe has run and main is past it
Probed == env_set /\ pc # "probe"

\* C19: without a cmake in the bootstrapped environment the run prints an
\* error and ends with a nonzero status before any stage is started, in
\* both pipelines.
C19_AsStated ==
    (~cmake_present /\ Probed) =>
        /\ pc = "exited" /\ exit_code \notin {0, Running}
        /\ runs = <<>> /\ NoStageStarted
        /\ out # <<>> /\ Last(out) \in ControllerErrors \ {"Traceback"}

\* the values a probe puts into the report
ReportValues(scr) ==
    {VersionLine, ShellErrorLine, "Unknown", "Not found"}
    \cup (IF scr = "build" THEN {"Error"} ELSE {})

\* C20 as stated: a probe never raises out of the prober and no value of
\* the report changes the stages or the exit status.
C20_AsStated ==
    /\ (pc = "exited" /\ env_set /\ tools = NoTools) => FALSE
    /\ tools # NoTools =>
         /\ \A t \in DOMAIN tools : tools[t] \in ReportValues(script)
         /\ ~(out # <<>> /\ Last(out) = "ERR cmake not found")

\* C20: every probed tool maps to the first line of its output, "Unknown"
\* when there is none, "Not found", or in the build pipeline "Error".  No
\* exception leaves the build pipeline's prober; the lint pipeline's lets
\* through what is neither FileNotFoundError nor PermissionError, which
\* ends the run with status 1.  The one value that changes the run is a
\* cmake reported "Not found" in the build pipeline, which ends it with
\* status 1 before any stage; after any other report main goes on.
C20_ProbeReport ==
    /\ tools # NoTools =>
         /\ DOMAIN tools = IF script = "build" THEN BuildToolNames(os_name)
                           ELSE LintToolNames(os_name)
         /\ \A t \in DOMAIN tools : tools[t] \in ReportValues(script)
    /\ (pc = "exited" /\ env_set /\ tools = NoTools) =>
         script = "lint" /\ Last(out) = "Traceback" /\ exit_code = 1
    /\ (script = "build" /\ tools # NoTools) =>
         (tools["cmake"] = "Not found" <=>
            (pc = "exited" /\ runs = <<>> /\ Last(out) = "ERR cmake not found"))
    /\ (script = "build" /\ tools # NoTools /\ tools["cmake"] = "Not found") =>
         exit_code = 1
    /\ (script = "lint" /\ tools # NoTools) =>
         ~(out # <<>> /\ Last(out) = "ERR cmake not found")

\* C20's case: cmake is reported "Error", the other tools "Not found", and
\* the build pipeline runs all its stages and ends with 0
C20_Witness ==
    /\ script = "build" /\ tools # NoTools
    /\ tools["cmake"] = "Error" /\ tools["git"] = "Not found"
    /\ pc = "exited" /\ exit_code = 0
    /\ Last(runs).stage = "test"

----------------------------------------------------------------------------
(* What the test filter is checked against *)

\* the line the loop read last, and the line without the white space
\* around it
TestLineRead == transcript[1]

\* a line carries the pass marker, the fail marker, a summary phrase
CarriesPass(line) == Contains(line, "Test #") /\ Contains(line, "Passed")
CarriesFail(line) == Contains(line, "Test #") /\ Contains(line, "Failed")
CarriesSummary(line) ==
    \/ Contains(line, "tests passed") \/ Contains(line, "tests failed")
    \/ Contains(line, "Total Test time") \/ Contains(line, "following tests FAILED")

\* a "Start <n>: <name>" line
StartLike(line) == StartsWith(Strip(line), "Start ") /\ Contains(line, ":")

\* C21: a status line that carries the pass marker, "Test #" together with
\* "Passed", is not printed, and after it the filter is not in the
\* failure-block state, whatever the state before it and whatever else the
\* line holds.
C21_PassSuppressed ==
    (transcript # <<>> /\ CarriesPass(TestLineRead)) =>
        printed = <<>> /\ ~last_was_failed

\* C21's case: a line with both markers is read and dropped
C21_Witness ==
    /\ pc = "test-stream" /\ transcript # <<>>
    /\ CarriesPass(TestLineRead) /\ CarriesFail(TestLineRead)
    /\ printed = <<>> /\ ~last_was_failed

\* C22 as stated: every status line that carries the fail marker, "Test #"
\* together with "Failed", is printed once and leaves the filter in the
\* failure-block state.
C22_AsStated ==
    (transcript # <<>> /\ CarriesFail(TestLineRead)) =>
        printed = <<Strip(TestLineRead)>> /\ last_was_failed

\* C23 as stated: in the failure-block state every line that is neither a
\* summary line nor a pass-status line is printed as it was read.
C23_AsStated ==
    [][(last_was_failed /\ ~CarriesPass(transcript'[1])
        /\ ~CarriesSummary(transcript'[1])) => printed' = <<transcript'[1]>>]_vars

\* a line the failure block keeps: not blank, not a pass-status line, and
\* not a "Start <n>:" line unless it is a fail-status line
KeptInBlock(line) ==
    /\ Strip(line) # <<>> /\ ~CarriesPass(line)
    /\ CarriesFail(line) \/ ~StartLike(line)

\* C23: in the failure-block state a line that is not blank, not a
\* pass-status line and not a "Start <n>:" line is printed, without the
\* white space around it, before the next line is read, and the state
\* lasts until a summary line or a pass-status line; a blank line and a
\* "Start <n>:" line are dropped and leave the state as it is.
C23_FailureBlock ==
    [][last_was_failed =>
         /\ printed' = IF KeptInBlock(transcript'[1]) THEN <<Strip(transcript'[1])>>
                       ELSE <<>>
         /\ (KeptInBlock(transcript'[1]) /\ ~CarriesSummary(transcript'[1]))
               => last_was_failed'
         /\ (Strip(transcript'[1]) = <<>>
             \/ (StartLike(transcript'[1]) /\ ~Contains(transcript'[1], "Test #")))
               => last_was_failed']_vars

\* C23's case: a line of a failed test's output, in white space, is printed
\* without it and the block goes on
C23_Witness ==
    /\ pc = "test-stream" /\ last_was_failed
    /\ transcript = << <<" ", "x", " ">> >> /\ printed = << <<"x">> >>

\* C24 as stated: every line that holds a summary phrase is printed,
\* whatever the state and whatever else the line holds, and after it the
\* filter is not in the failure-block state.
C24_AsStated ==
    (transcript # <<>> /\ CarriesSummary(TestLineRead)) =>
        printed = <<Strip(TestLineRead)>> /\ ~last_was_failed

\* C24: a line that holds a summary phrase and is neither a status line
\* nor a "Start <n>:" line is printed, whatever the state, and after it the
\* filter is not in the failure-block state; a status line that holds a
\* summary phrase is treated as the status line it is.
C24_Summary ==
    (transcript # <<>> /\ CarriesSummary(TestLineRead)) =>
        /\ (~CarriesPass(TestLineRead) /\ ~CarriesFail(TestLineRead)
            /\ ~StartLike(TestLineRead))
              => (printed = <<Strip(TestLineRead)>> /\ ~last_was_failed)
        /\ CarriesPass(TestLineRead) => (printed = <<>> /\ ~last_was_failed)
        /\ (CarriesFail(TestLineRead) /\ ~CarriesPass(TestLineRead))
              => (printed = <<Strip(TestLineRead)>> /\ last_was_failed)

\* C24's case: the list of the failed tests is announced
C24_Witness ==
    /\ pc = "test-stream" /\ transcript = << <<"following tests FAILED">> >>
    /\ printed = transcript /\ ~last_was_failed

\* C25: outside the failure-block state a line that is neither a
\* fail-status line nor a summary line is not printed; what a pass prints
\* is the line it read, without the white space around it, and that line is
\* a fail-status line, a summary line or a line read in the failure-block
\* state.
C25_Noise ==
    [][/\ (~last_was_failed /\ ~CarriesFail(transcript'[1])
           /\ ~CarriesSummary(transcript'[1])) => printed' = <<>>
       /\ printed' # <<>> =>
            /\ printed' = <<Strip(transcript'[1])>>
            /\ \/ CarriesFail(transcript'[1]) \/ CarriesSummary(transcript'[1])
               \/ last_was_failed]_vars

\* C25's case: the banner is read outside a failure block and dropped
C25_Witness ==
    /\ pc = "test-stream" /\ transcript = << <<"Test project", "x">> >>
    /\ printed = <<>> /\ ~last_was_failed

----------------------------------------------------------------------------
(* What the lint parser is checked against *)

\* the issue a line of the shape c spells out
IssueOfShape(c) ==
    [file |-> ShapeFile(c), line |-> <<"1", "2">>, col |-> <<"5">>,
     severity |-> c.severity, message |-> ShapeMessage(c), check |-> <<"c">>]

\* a line of the shape c, with one of the three severities and no brackets
\* at its end, goes the way of the plain lines
PlainWay(c) ==
    IF args.verbose \/ c.severity = "error"
    THEN printed = <<Shown(<<>>, Strip(LintLineOf(c)))>>
    ELSE printed = <<>>

\* the lines with one of the three severities and no brackets at their end
WithoutCheck ==
    {LintLineOf(c) : c \in {d \in LintShapes : d.bracket = "none"
                                                /\ d.severity \in Severities}}

\* C26: a line "<path>:<line>:<col>: <severity>: <message> [<check>]" with
\* one of the severities error, warning and note, with or without a drive
\* before the path, is parsed to the issue with these six fields; a line
\* without the check in brackets at its end yields no issue, leaves the
\* list of issues as it was and is printed by the rule of the plain lines.
C26_Grammar ==
    /\ [](\A c \in LintShapes : transcript = <<LintLineOf(c)>> =>
            /\ (c.severity \in {"error", "warning", "note"} /\ c.bracket = "check")
                  => parsed = <<IssueOfShape(c)>>
            /\ c.bracket = "none" => (parsed = <<>> /\ PlainWay(c)))
    /\ [][transcript'[1] \in WithoutCheck => issues' = issues]_vars

\* C26's case: a line with a drive, in escape sequences, is parsed
C26_Witness ==
    /\ pc = "lint-stream"
    /\ \E c \in LintShapes :
         /\ c.form = "drive" /\ c.wrap = "ansi" /\ c.bracket = "check"
         /\ c.severity = "note"
         /\ transcript = <<LintLineOf(c)>> /\ parsed = <<IssueOfShape(c)>>
         /\ parsed[1].file = <<"C", ":", "f">>

\* the issue LintLine(v) spells out
IssueOfLine(v) ==
    [file |-> <<"f">>, line |-> <<"1", "2">>, col |-> <<"5">>, severity |-> v,
     message |-> <<"m">>, check |-> <<"c">>]

\* the lines of the transcript that spell out an error or a warning
RetainedLines ==
    SelectSeq(transcript, LAMBDA l : l \in {LintLine("error"), LintLine("warning")})

\* C27: after the lint run the list of issues holds, in the order of the
\* lines, one record for every matched line with the severity error or
\* warning and none for a note; a matched note is printed, and neither the
\* number of issues nor the verdict depends on it.
C27_Retention ==
    (script = "lint" /\ RunsOf("lint") # <<>>) =>
        /\ issues = [i \in 1..Len(RetainedLines) |-> IssueOfLine(RetainedLines[i][9])]
        /\ \A i \in 1..Len(transcript) : transcript[i] = LintLine("note") =>
              Shown(<<IssueOfLine("note")>>, <<>>) \in Range(printed)
        /\ Len(printed) >= Len(issues)
        /\ Last(runs).ok <=> (Last(runs).code = 0 /\ RetainedLines = <<>>)

\* C27's case: an error, a note and a warning are read
C27_Witness ==
    /\ script = "lint" /\ RunsOf("lint") # <<>>
    /\ transcript = <<LintLine("error"), LintLine("note"), LintLine("warning")>>
    /\ issues = <<IssueOfLine("error"), IssueOfLine("warning")>>
    /\ Len(printed) = 3

\* the line the lint loop read last
LintLineRead == transcript[1]

\* what the rule of the plain lines is said to print of a line
SaidShown(line) ==
    /\ Strip(line) # <<>>
    /\ ~Has(line, <<"warnings generated">>)
    /\ ~(Has(line, <<"Suppressed">>) /\ Has(line, <<"non-user code">>))
    /\ \/ args.verbose \/ Has(line, <<"error", ":">>)
       \/ Has(line, <<"Enabled checks", ":">>)

\* C28: a line the pattern does not match is printed exactly when it is
\* not white space only, holds no noise phrase ("warnings generated", or
\* "Suppressed" together with "non-user code") and the verbose mode is on
\* or the line holds "error:" or "Enabled checks:"; a noise line is dropped
\* in the verbose mode too; a plain line never adds to the list of issues.
C28_PlainText ==
    /\ []((transcript # <<>> /\ parsed = <<>>) =>
            printed = IF SaidShown(LintLineRead)
                      THEN <<Shown(<<>>, Strip(LintLineRead))>> ELSE <<>>)
    /\ [][parsed' = <<>> => issues' = issues]_vars

\* C28's case: a noise line that holds "error:" is dropped in the verbose
\* mode
C28_Witness ==
    /\ pc = "lint-stream" /\ args.verbose
    /\ transcript = << <<"m", "warnings generated", "error", ":", "\n">> >>
    /\ parsed = <<>> /\ printed = <<>>

----------------------------------------------------------------------------
(* What the issue summary table is checked against *)

\* the number of the issues that carry the check
IssuesOf(check) == Cardinality({i \in 1..Len(issues) : issues[i].check = check})

\* where the check occurs first in the issues
FirstOf(check) ==
    CHOOSE i \in 1..Len(issues) :
        issues[i].check = check /\ \A j \in 1..(i - 1) : issues[j].check # check

RECURSIVE SumOfCounts(_)
SumOfCounts(rows) ==
    IF rows = <<>> THEN 0 ELSE rows[1].count + SumOfCounts(Tail(rows))

\* C29: the table has one row for every check of the issues, with the
\* number of the issues that carry it, so the counts add up to the number
\* of issues; the rows are in non-increasing order of count, rows with
\* equal counts in the order the checks occur first; for the checks A, B, A
\* the rows are A: 2, B: 1; without issues no table is printed.
C29_Table ==
    pc = "summarized" =>
        /\ issues = <<>> => (table = <<>> /\ out = <<>>)
        /\ issues # <<>> => out = <<"ISSUE BREAKDOWN">>
        /\ \A i \in 1..Len(issues) :
              Cardinality({k \in 1..Len(table) : table[k].check = issues[i].check}) = 1
        /\ \A k \in 1..Len(table) : table[k].count = IssuesOf(table[k].check)
                                    /\ table[k].count > 0
        /\ SumOfCounts(table) = Len(issues)
        /\ \A k \in 1..(Len(table) - 1) :
              \/ table[k].count > table[k + 1].count
              \/ /\ table[k].count = table[k + 1].count
                 /\ FirstOf(table[k].check) < FirstOf(table[k + 1].check)
        /\ ([i \in 1..Len(issues) |-> issues[i].check] = << <<"A">>, <<"B">>, <<"A">> >>)
              => table = <<[check |-> <<"A">>, count |-> 2], [check |-> <<"B">>, count |-> 1]>>

\* C29's case: two checks with two issues each, B seen first
C29_Witness ==
    /\ pc = "summarized"
    /\ [i \in 1..Len(issues) |-> issues[i].check] = << <<"B">>, <<"A">>, <<"A">>, <<"B">> >>
    /\ table = <<[check |-> <<"B">>, count |-> 2], [check |-> <<"A">>, count |-> 2]>>

----------------------------------------------------------------------------
(* What the configure gate is checked against *)

\* the step started configure: cmake was launched, or launching it raised
ConfigureStarted ==
    \/ /\ Len(events') > Len(events) /\ events'[Len(events) + 1] = "configure"
    \/ /\ events' = events /\ out' # <<>> /\ Last(out') = "Traceback"

\* the step of build.py main that decides on configure
ConfigureGate ==
    (script = "build" /\ pc = "configure") =>
        /\ (args.reconfigure \/ (stale'.known /\ stale'.value)) <=> ConfigureStarted
        /\ ~ConfigureStarted => (pc' = "build" /\ events' = events /\ runs' = runs)
        /\ args.reconfigure => ~stale'.known
        /\ ~build_dir => ConfigureStarted

\* the step of build.py main a requested clean is made in: the removal is
\* tried when the directory is there, before the gate
CleanBeforeGate ==
    (script = "build" /\ pc = "probe" /\ pc' = "configure") =>
        IF args.clean /\ build_dir
        THEN events' = Append(events, "rmtree") /\ (~build_dir' => cache' = NoFile)
        ELSE events' = events /\ build_dir' = build_dir

\* C30 as stated: once the build pipeline is past the gate, configure was
\* run when the flag is set, and when the removal of the build directory
\* was tried for a requested clean.
C30_AsStated ==
    (script = "build" /\ pc \in {"build", "test"}
     /\ (args.reconfigure \/ (args.clean /\ "rmtree" \in Range(events))))
        => "configure" \in Range(events)

\* C30: configure is started exactly when the flag is set or the staleness
\* check, made after the removal a requested clean tries, reports the cache
\* stale; with the flag the check is not made and configure is started
\* whatever the cache; a requested clean leads to a configure when the
\* removal succeeds, and when it fails the flag and the check decide.
C30_Gate == [][ConfigureGate /\ CleanBeforeGate]_vars

\* C30's case: the directory is removed for a requested clean, the cache is
\* found stale and configure runs
C30_Witness ==
    /\ script = "build" /\ args.clean /\ ~args.reconfigure
    /\ stale = Returned(TRUE)
    /\ events # <<>> /\ \E i \in 1..(Len(events) - 1) :
          events[i] = "rmtree" /\ events[i + 1] = "configure"
    /\ pc = "build"

----------------------------------------------------------------------------
(* C31: the lint grammar under escape sequences and white space *)

\* the wrapped line has white space and an escape sequence before it
WrappedInBoth ==
    /\ \E i \in 1..Len(transcript[2]) : transcript[2][i] \in AnsiPieces
    /\ transcript[2][1] = " "

\* C31 as stated: the wrapped line is classified as the bare line is, and
\* stripping what was stripped changes nothing, whatever the line
C31_AsStated ==
    /\ [](pc = "stripped" => parsed[1] = parsed[2])
    /\ [][pc = "stripped" => printed' = printed]_vars

\* C31: a line wrapped in whole escape sequences and white space is
\* classified as the bare line is, to the same issue or to no match, and
\* stripping is idempotent on every text whose first stripping leaves no
\* escape character in it
C31_Invariance ==
    /\ [](pc = "stripped" => /\ parsed[1] = parsed[2]
                             /\ Strip(printed[1]) = Strip(printed[2]))
    /\ [][pc = "stripped" /\ ~Contains(printed[1], Esc) /\ ~Contains(printed[2], Esc)
            => printed' = printed]_vars

\* a line with an issue in it, classified bare and wrapped in both
C31_Witness ==
    /\ pc = "stripped-again" /\ parsed[1] # NoMatch /\ WrappedInBoth
    /\ transcript[1] # transcript[2] /\ parsed[1] = parsed[2]

----------------------------------------------------------------------------
(* C32, C33: the stages one after the other, and the end of the run *)

\* the children that have not exited
Alive == {i \in 1..Len(children) : children[i].state # "exited"}

\* the children main has read the exit status of
StatusRead == {i \in 1..Len(children) : children[i].read}

\* the place of a stage in the order configure, build, test or configure, lint
StageRank(stage) ==
    CASE stage = "configure" -> 1 [] stage = "build" -> 2 [] OTHER -> 3

StagesOf(scr) ==
    IF scr = "build" THEN {"configure", "build", "test"} ELSE {"configure", "lint"}

\* C32: at most one child of a stage is alive; main reads the output of the
\* test runner and of the lint runner to its end, then waits for the exit,
\* then reads the exit status, and the status it reads is the child's; a
\* child is spawned only when the status of every child before it has been
\* read, in the order configure, build, test or configure, lint
C32_Sequential ==
    /\ Cardinality(Alive) <= 1
    /\ \A i \in 1..Len(children) :
         LET c == children[i]
         IN  /\ c.stage \in StagesOf(script)
             /\ c.piped <=> c.stage \in {"test", "lint"}
             /\ c.eof => c.piped /\ EndOfStream(c)
             /\ c.waited => c.state = "exited" /\ (c.piped => c.eof)
             /\ c.read => c.waited
             /\ i < Len(children) => c.read
             /\ \A j \in (i + 1)..Len(children) :
                  \/ StageRank(c.stage) < StageRank(children[j].stage)
                  \/ c.stage = "configure" /\ children[j].stage = "configure"
    /\ Len(runs) = Cardinality(StatusRead)
    /\ \A i \in StatusRead :
         runs[i].stage = children[i].stage /\ runs[i].code = children[i].code

\* C32's case: configure twice, the build and the tests, each child spawned
\* after the one before it was done with, and lines of the test runner read
C32_Witness ==
    /\ script = "build" /\ pc = "exited" /\ Len(children) = 4
    /\ children[4].stage = "test" /\ children[4].read /\ Len(transcript) = MaxRead
    /\ children[2].stage = "configure"

\* a child has been spawned and has not exited
ChildAlive == Alive # {}

StageCount(stage) == Cardinality({i \in 1..Len(children) : children[i].stage = stage})

\* the build pipeline spawns configure twice at most, the build and the
\* tests once at most
BoundedWork ==
    script = "build" =>
        /\ StageCount("configure") <= 2
        /\ StageCount("build") <= 1 /\ StageCount("test") <= 1

SummaryPrinted == \E i \in 1..Len(out) : out[i] \in {"SUMMARY SUCCESS", "SUMMARY FAILED"}

\* C33 as stated: the work is bounded, and a run whose children all exit
\* ends with a summary printed
C33_AsStated ==
    /\ []BoundedWork
    /\ \/ <>[]ChildAlive
       \/ <>(script = "build" => pc = "exited" /\ SummaryPrinted)

\* C33: the build pipeline spawns configure twice at most, the build and
\* the tests once at most; a run ends unless a child never exits; it has
\* printed the summary when it ends, except when it ends before any stage
\* because cmake was not found, or with an exception nothing catches
C33_BoundedWork ==
    /\ []BoundedWork
    /\ \/ <>[]ChildAlive
       \/ <>(script = "build" => pc = "exited")
    /\ []((script = "build" /\ pc = "exited") =>
            (SummaryPrinted <=> Last(out) \notin {"ERR cmake not found", "Traceback"}))

\* C33's case: the longest run, configure twice, the build and the tests,
\* ended with the summary
C33_Witness ==
    /\ script = "build" /\ pc = "exited" /\ SummaryPrinted
    /\ StageCount("configure") = 2 /\ StageCount("build") = 1 /\ StageCount("test") = 1
    /\ ~ChildAlive

----------------------------------------------------------------------------
(* C34: when the build directory is removed *)

\* where shutil.rmtree was called
Removals == {i \in 1..Len(events) : events[i] = "rmtree"}

\* the removal --clean asked for: no stage has been started before it
CleanRemoval(i) == args.clean /\ \A j \in 1..(i - 1) : events[j] \notin Stages

\* the removal of the auto-heal: straight after the first configure, which
\* failed
HealRemoval(i) ==
    /\ i > 1 /\ events[i - 1] = "configure"
    /\ \A j \in 1..(i - 2) : events[j] # "configure"
    /\ runs # <<>> /\ runs[1].stage = "configure" /\ runs[1].code # 0

\* no clean was asked for and the first configure succeeded or was skipped
NothingToRemove ==
    ~args.clean /\ (RunsOf("configure") = <<>> \/ RunsOf("configure")[1].code = 0)

\* every removal is one of the two, in the build pipeline and before the
\* build stage, and there is none when there is nothing to remove for
RemovalsAllowed ==
    /\ \A i \in Removals :
         /\ script = "build"
         /\ CleanRemoval(i) \/ HealRemoval(i)
         /\ \A j \in 1..(i - 1) : events[j] \notin {"build", "test"}
    /\ NothingToRemove => Removals = {}

\* the build directory goes away only in a step that calls shutil.rmtree,
\* and in none once the build stage has started
RemovedByRmtree ==
    (build_dir /\ ~build_dir') =>
        /\ \E i \in (Len(events) + 1)..Len(events') : events'[i] = "rmtree"
        /\ "build" \notin Range(events)

\* C34: the build directory is removed only by the build pipeline, for
\* --clean before any stage or straight after a first configure that
\* failed; without --clean and with the first configure succeeding or
\* skipped it is never removed; it is never removed once the build stage
\* has started, and nothing else makes it go away
C34_Frame == []RemovalsAllowed /\ [][RemovedByRmtree]_vars

\* C34's case: --clean removes the directory before the stages, the first
\* configure fails and the directory is removed again, then the build runs
C34_Witness ==
    /\ script = "build" /\ args.clean /\ Cardinality(Removals) = 2
    /\ "build" \in Range(events) /\ pc = "exited"

----------------------------------------------------------------------------
(* C35: the gate in front of -fix *)

\* the answer reads as y or yes, whatever its case and the blanks around it
SaidYes(typed) == Strip(str_lower(typed)) \in {<<"y">>, <<"y", "e", "s">>}

\* the answer is empty or reads as n or no
SaidNo(typed) == Strip(str_lower(typed)) \in {<<>>, <<"n">>, <<"n", "o">>}

\* the lint stage has been started
LintStarted == "lint" \in Range(events) \/ \E i \in 1..Len(children) : children[i].stage = "lint"

\* the search for the fixer returned nothing
FixerMissing == "car" \in DOMAIN searched /\ ~searched["car"]

\* the run ended with this status and the lint stage was not started
EndedBeforeLint(code) == pc = "exited" /\ exit_code = code /\ ~LintStarted

\* the runner is passed -fix only behind the gate, an answer that is not a yes
\* or a missing fixer ends the run before the lint stage, and a prompt
\* follows unrecognised answers alone
FixGate ==
    /\ cmd_extras \in {<<>>, <<"-fix">>}
    /\ cmd_extras = <<"-fix">> =>
          /\ args.fix /\ "car" \in DOMAIN searched /\ searched["car"]
          /\ args.force \/ (responses # <<>> /\ SaidYes(Last(responses)))
    /\ (responses # <<>> /\ SaidNo(Last(responses))) => EndedBeforeLint(0)
    /\ (pc = "exited" /\ out # <<>> /\ Last(out) = "Aborted") =>
          /\ responses # <<>> /\ SaidNo(Last(responses)) /\ EndedBeforeLint(0)
    /\ FixerMissing => EndedBeforeLint(1)
    /\ \A i \in 1..(Len(responses) - 1) :
          ~SaidYes(responses[i]) /\ ~SaidNo(responses[i])

\* an answer that is neither is followed by the prompt again, nothing else
\* having happened
Reprompts ==
    (pc = "confirm" /\ Len(responses') = Len(responses) + 1
       /\ ~SaidYes(Last(responses')) /\ ~SaidNo(Last(responses'))) =>
        pc' = "confirm" /\ UNCHANGED <<events, cmd_extras, exit_code, out>>

\* C35: -fix is passed to the runner only when --fix was given, the fixer
\* was found, and --force was given or the user answered yes; an empty or
\* negative answer ends the run with status 0 before the lint stage, an
\* unrecognised answer is followed by the prompt again, and a missing fixer
\* ends the run with status 1 before the lint stage
C35_FixGate == []FixGate /\ [][Reprompts]_vars

\* C35's case: without --force the user answers something else, then yes in
\* capitals between blanks, and the lint stage runs with -fix
C35_Witness ==
    /\ script = "lint" /\ args.fix /\ ~args.force /\ pc = "exited"
    /\ responses = <<<<"m">>, <<" ", "Y", "E", "S", " ">>>>
    /\ cmd_extras = <<"-fix">> /\ "lint" \in Range(events)

----------------------------------------------------------------------------
(* C36: what the lint stage starts from *)

\* the search for run-clang-tidy has returned, with a path or without
RunnerLooked == "run_ct" \in DOMAIN searched

\* the lint pipeline ran cmake --preset and it ended with this status
LintConfigured == {runs[i].code : i \in {j \in 1..Len(runs) : runs[j].stage = "configure"}}

\* the run has ended with a status that is not 0, the lint stage not started
FailedBeforeLint == pc = "exited" /\ exit_code # 0 /\ ~LintStarted

\* where the lint stage has started the database is there and the runner
\* was located; a configure that failed, a database missing after the
\* configure and a runner not found each end the run
LintPrecondition ==
    script = "lint" =>
        /\ LintStarted => cc_exists /\ RunnerLooked /\ searched["run_ct"]
        /\ pc = "execute" => cc_exists /\ RunnerLooked /\ searched["run_ct"]
        /\ Cardinality({i \in 1..Len(events) : events[i] = "configure"}) <= 1
        /\ LintConfigured \ {0} # {} => FailedBeforeLint
        /\ (LintConfigured # {} /\ ~cc_exists) => FailedBeforeLint
        /\ (RunnerLooked /\ ~searched["run_ct"]) => FailedBeforeLint
        /\ (pc \in {"tools", "confirm"}) => cc_exists

\* the step from the probe: the database is configured when it is missing
\* and only then, with one invocation, unless the step ends in an exception
ConfiguresWhenMissing ==
    (script = "lint" /\ pc = "probe") =>
        \/ pc' = "exited" /\ out' # <<>> /\ Last(out') = "Traceback"
              /\ exit_code' # 0 /\ events' = events
        \/ cc_exists /\ events' = events /\ cc_exists'
        \/ ~cc_exists /\ events' = Append(events, "configure")

\* C36: the lint stage is started only where compile_commands.json is in
\* the build directory and run-clang-tidy was located; a missing database
\* is configured with one invocation of cmake --preset; a configure that
\* fails, a database still missing after it and a runner that is not found
\* each end the run with a status that is not 0 and without the lint stage
C36_LintPrecondition == []LintPrecondition /\ [][ConfiguresWhenMissing]_vars

\* C36's case: the database is missing, cmake --preset generates it, the
\* runner is located and the lint stage runs
C36_Witness ==
    /\ script = "lint" /\ events = <<"configure", "lint">> /\ cc_exists
    /\ searched["run_ct"] /\ pc = "exited"

----------------------------------------------------------------------------
(* C37: the toolset of the command line and the toolset of the preset *)

\* --msvc-toolset was given on the command line
ExplicitToolset == ~args.explicit_toolset.isNone

\* get_toolset_from_preset has been called
PresetsConsulted == preset_name # ""

\* vcvars64.bat has been invoked
ScriptInvoked == "vcvars" \in Range(events)

\* the bootstrap is entered, or was entered, with the toolset main holds
Handed == pc # "detect"

\* the toolset handed to the bootstrap is the command line's when there is
\* one, the presets being consulted only when there is none; the script is
\* pinned to the version handed over, and to none when neither gave one
ToolsetPrecedence ==
    script = "lint" =>
        /\ ExplicitToolset => msvc_toolset = args.explicit_toolset /\ ~PresetsConsulted
        /\ PresetsConsulted => ~ExplicitToolset /\ os_name = "nt"
        /\ (Handed /\ ~ExplicitToolset) =>
              /\ PresetsConsulted <=> os_name = "nt"
              /\ msvc_toolset = IF PresetsConsulted /\ Truthy(resolved.found)
                                THEN resolved.found ELSE None
        /\ ScriptInvoked =>
              vcvars_arg = IF Truthy(msvc_toolset) THEN msvc_toolset ELSE None
        /\ (ScriptInvoked /\ ~Truthy(args.explicit_toolset) /\ ~Truthy(resolved.found)) =>
              vcvars_arg = None
        /\ (ScriptInvoked /\ Truthy(args.explicit_toolset)) =>
              vcvars_arg = args.explicit_toolset

\* the toolset main holds changes in the detection alone, and not when the
\* command line gave one
ReplacedByDetection ==
    msvc_toolset' # msvc_toolset =>
        pc = "detect" /\ ~ExplicitToolset /\ msvc_toolset' = resolved'.found

\* C37: a toolset version given on the command line is the one handed to
\* the bootstrap and is never replaced by the preset's; the presets are
\* consulted only when the command line gave none; when neither gives a
\* version the script is invoked without a version argument
C37_ToolsetPrecedence == []ToolsetPrecedence /\ [][ReplacedByDetection]_vars

\* C37's case: on Windows the command line names a version, the presets
\* are not read, and vcvars64.bat is run pinned to the command line's version
C37_Witness ==
    /\ script = "lint" /\ os_name = "nt" /\ Truthy(args.explicit_toolset)
    /\ ScriptInvoked /\ vcvars_arg = args.explicit_toolset /\ ~PresetsConsulted
    /\ boot_exit = "loaded"

============================================================================
